---- MODULE Spec2Model ----
(***************************************************************************)
(* A model of slim's ASGI adapter (slim/base/web.py) and of its validation *)
(* step (slim/base/_view/validate.py).                                     *)
(*                                                                         *)
(* Six specifications share the module:                                    *)
(*   Spec         one HTTP request through handle_request                  *)
(*   SpecLife     the lifespan loop of handle_request                      *)
(*   SpecValidate a direct call of view_validate_check                     *)
(*   SpecHeaders  Response.build_headers on a drawn response               *)
(*   SpecOrm      the operations of PeeweeSQLFunctions on a table          *)
(*   SpecConc     several handle_request calls interleaving at awaits      *)
(***************************************************************************)
EXTENDS Integers, Sequences, FiniteSets, TLC

VARIABLES
    \* ---- application and request (handle_request, scope type http)
    cors_options,     \* app.cors_options: a sequence of CORSOptions
    scope,            \* the ASGI scope: [type, method, path, headers]
    pc,               \* position inside handle_request / view_validate_check
    route_info,       \* result of app.route.query_path, first component
    call_kwargs_raw,  \* result of app.route.query_path, second component
    call_kwargs,      \* the filtered copy
    view,             \* the view instance built for the request
    resp,             \* local resp of handle_request
    body,             \* local body of handle_request
    sent,             \* events passed to send(), in order
    calls,            \* external calls made, in order
    handler_kwargs,   \* the keyword arguments of each handler invocation
    exc,              \* the exception that left the function, or "none"
    \* ---- view_validate_check
    va,               \* [query, post, headers, write_value]: declared schemas
    write_values,     \* local write_values of view_validate_check
    item_idx,         \* loop position over post_data['items']
    err,              \* the typed error raised inside ErrorCatchContext
    \* ---- lifespan loop
    ls_pc,            \* position inside the lifespan loop
    ls_msg,           \* the message receive() handed back last
    ls_idx,           \* loop position over app.on_startup / app.on_shutdown
    ls_sent,          \* events passed to send(), in order
    ls_calls,         \* receives, hook calls, raises and sends, in order
    ls_recv,          \* number of messages received
    ls_app,           \* [on_startup, on_shutdown]: number of registered callbacks
    \* ---- Response.build_headers
    bh_pc,            \* position of the build_headers call
    bh_resp,          \* the response build_headers is called on
    bh_out,           \* what build_headers returned
    \* ---- PeeweeSQLFunctions
    db_rows,          \* the rows of view.model's table, in primary-key order
    db_log,           \* what the current operation asked of the database, in order
    sql_err,          \* self.err of the PeeweeSQLFunctions instance
    sql_ret,          \* how the current operation ended: returned value or raised
    sql_op,           \* the current operation and its arguments
    sql_n,            \* number of operations called so far
    \* ---- concurrent requests
    cc_req,           \* per request: the locals of its handle_request call
    cc_heap,          \* the view instances built so far
    cc_sent           \* per request: the events passed to its send(), in order

httpVars == <<cors_options, scope, pc, route_info, call_kwargs_raw, call_kwargs, view, resp, body, sent, calls, handler_kwargs, exc>>
valVars == <<va, write_values, item_idx, err>>
lifeVars == <<ls_pc, ls_msg, ls_idx, ls_sent, ls_calls, ls_recv, ls_app>>
bhVars == <<bh_pc, bh_resp, bh_out>>
ormVars == <<db_rows, db_log, sql_err, sql_ret, sql_op, sql_n>>
ccVars == <<cc_req, cc_heap, cc_sent>>
vars == <<httpVars, valVars, lifeVars, bhVars, ormVars, ccVars>>

(***************************************************************************)
(* Python values.  t is the Python type, v the text str() gives (for bytes *)
(* the text the bytes decode to), items the elements of a tuple.           *)
(***************************************************************************)
PyVal(t, v, items) == [t |-> t, v |-> v, items |-> items]
PyNone == PyVal("NoneType", "None", <<>>)
PyStr(s) == PyVal("str", s, <<>>)
PyBytes(s) == PyVal("bytes", s, <<>>)
PyInt(n) == PyVal("int", ToString(n), <<>>)
PyBool(b) == PyVal("bool", IF b THEN "True" ELSE "False", <<>>)
PyDict(text) == PyVal("dict", text, <<>>)

RECURSIVE JoinStr(_, _)
\* sep.join(xs) for a sequence of texts
JoinStr(xs, sep) ==
    IF Len(xs) = 0 THEN ""
    ELSE IF Len(xs) = 1 THEN xs[1]
    ELSE xs[1] \o sep \o JoinStr(Tail(xs), sep)

\* repr of a tuple of str, which is what str() gives for it
TupleRepr(xs) ==
    IF Len(xs) = 1 THEN "('" \o xs[1] \o "',)"
    ELSE "(" \o JoinStr([i \in 1..Len(xs) |-> "'" \o xs[i] \o "'"], ", ") \o ")"

PyTuple(xs) == PyVal("tuple", TupleRepr(xs), xs)

\* Python truthiness of a value
Truthy(x) ==
    CASE x.t = "NoneType" -> FALSE
      [] x.t = "bool" -> x.v = "True"
      [] x.t = "int" -> x.v # "0"
      [] x.t = "tuple" -> Len(x.items) > 0
      [] x.t = "dict" -> x.v # "{}"
      [] OTHER -> x.v # ""

\* x.encode('utf-8') for a str, and str(x).encode('utf-8') for the rest
Encode(x) == PyBytes(x.v)

(***************************************************************************)
(* Python dicts: insertion-ordered, as a sequence of <<key, value>> pairs  *)
(* with distinct keys.  An Optional[Dict] is [none, kv].                   *)
(***************************************************************************)
DictKeys(d) == {d[i][1] : i \in 1..Len(d)}
DictHas(d, k) == k \in DictKeys(d)
DictGet(d, k) == d[CHOOSE i \in 1..Len(d) : d[i][1] = k][2]
\* d[k] = v: in place when the key is there, appended when it is not
DictSet(d, k, v) ==
    IF DictHas(d, k)
    THEN [i \in 1..Len(d) |-> IF d[i][1] = k THEN <<k, v>> ELSE d[i]]
    ELSE Append(d, <<k, v>>)

RECURSIVE DictUpdate(_, _)
\* d.update(e)
DictUpdate(d, e) ==
    IF Len(e) = 0 THEN d
    ELSE DictUpdate(DictSet(d, e[1][1], e[1][2]), Tail(e))

NoDict == [none |-> TRUE, kv |-> <<>>]
SomeDict(d) == [none |-> FALSE, kv |-> d]
\* truthiness of an Optional[Dict]: None and {} are both falsy
DictTruthy(od) == ~od.none /\ Len(od.kv) > 0

(***************************************************************************)
(* slim.base.const: header names                                           *)
(***************************************************************************)
CONTENT_TYPE == "Content-Type"
SET_COOKIE == "Set-Cookie"
ACCESS_CONTROL_ALLOW_ORIGIN == "Access-Control-Allow-Origin"
ACCESS_CONTROL_ALLOW_CREDENTIALS == "Access-Control-Allow-Credentials"
ACCESS_CONTROL_EXPOSE_HEADERS == "Access-Control-Expose-Headers"
ACCESS_CONTROL_ALLOW_HEADERS == "Access-Control-Allow-Headers"
ACCESS_CONTROL_MAX_AGE == "Access-Control-Max-Age"
ACCESS_CONTROL_ALLOW_METHODS == "Access-Control-Allow-Methods"

(***************************************************************************)
(* CORSOptions                                                             *)
(***************************************************************************)
CORSOptions(host, allow_credentials, expose_headers, allow_headers, max_age, allow_methods) ==
    [host |-> host, allow_credentials |-> allow_credentials,
     expose_headers |-> expose_headers, allow_headers |-> allow_headers,
     max_age |-> max_age, allow_methods |-> allow_methods]

\* the inner solve(val) of pack_headers
solve(val) ==
    IF val.t = "str" THEN val
    ELSE IF val.t = "tuple" THEN PyStr(JoinStr(val.items, ","))
    ELSE PyNone

\* faulty variant of pack_headers: max-age is set whether configured or not
pack_headers_always_max_age(self, origin) ==
    << <<ACCESS_CONTROL_ALLOW_ORIGIN, origin>>,
       <<ACCESS_CONTROL_ALLOW_CREDENTIALS,
         IF self.allow_credentials THEN PyBytes("true") ELSE PyBytes("false")>>,
       <<ACCESS_CONTROL_MAX_AGE, self.max_age>> >>

\* CORSOptions.pack_headers(origin): a fresh dict
pack_headers(self, origin) ==
    LET h0 == << <<ACCESS_CONTROL_ALLOW_ORIGIN, origin>>,
                 <<ACCESS_CONTROL_ALLOW_CREDENTIALS,
                   IF self.allow_credentials THEN PyBytes("true") ELSE PyBytes("false")>> >>
        h1 == IF Truthy(self.expose_headers)
              THEN DictSet(h0, ACCESS_CONTROL_EXPOSE_HEADERS, solve(self.expose_headers))
              ELSE h0
        h2 == IF Truthy(self.allow_headers)
              THEN DictSet(h1, ACCESS_CONTROL_ALLOW_HEADERS, solve(self.allow_headers))
              ELSE h1
        h3 == IF Truthy(self.max_age)
              THEN DictSet(h2, ACCESS_CONTROL_MAX_AGE, self.max_age)
              ELSE h2
        h4 == IF Truthy(self.allow_methods)
              THEN DictSet(h3, ACCESS_CONTROL_ALLOW_METHODS, self.allow_methods)
              ELSE h3
    IN  h4

(***************************************************************************)
(* Response and JSONResponse                                               *)
(***************************************************************************)
Response(status, b, headers, content_type, cookies) ==
    [cls |-> "Response", status |-> status, body |-> b, headers |-> headers,
     content_type |-> content_type, cookies |-> cookies]

JSONResponse(status, b, headers, cookies) ==
    [cls |-> "JSONResponse", status |-> status, body |-> b, headers |-> headers,
     content_type |-> "application/json", cookies |-> cookies]

\* json.dumps of the bodies the model uses
json_dumps(b) == IF b.t = "NoneType" THEN PyStr("null") ELSE PyStr(b.v)

\* Response.get_body
get_body(self) ==
    LET b == IF self.cls = "JSONResponse" THEN json_dumps(self.body) ELSE self.body
    IN  IF b.t = "str" THEN Encode(b) ELSE b

\* a faulty variant of cookie_value: Path is appended before Domain
cookie_value_swapped(v) ==
    <<DictGet(v, "name").v \o "=" \o DictGet(v, "value").v>>
    \o (IF DictHas(v, "expires") THEN <<"; Expires=" \o DictGet(v, "expires").v>> ELSE <<>>)
    \o (IF DictHas(v, "max-age") THEN <<"; Max-Age=" \o DictGet(v, "max-age").v>> ELSE <<>>)
    \o (IF DictHas(v, "path") THEN <<"; Path=" \o DictGet(v, "path").v>> ELSE <<>>)
    \o (IF DictHas(v, "domain") THEN <<"; Domain=" \o DictGet(v, "domain").v>> ELSE <<>>)
    \o (IF DictHas(v, "secure") /\ Truthy(DictGet(v, "secure")) THEN <<"; Secure">> ELSE <<>>)
    \o (IF DictHas(v, "httponly") /\ Truthy(DictGet(v, "httponly")) THEN <<"; HttpOnly">> ELSE <<>>)

\* the f-string pieces of one Set-Cookie value, in the order they are appended
cookie_value(v) ==
    <<DictGet(v, "name").v \o "=" \o DictGet(v, "value").v>>
    \o (IF DictHas(v, "expires") THEN <<"; Expires=" \o DictGet(v, "expires").v>> ELSE <<>>)
    \o (IF DictHas(v, "max-age") THEN <<"; Max-Age=" \o DictGet(v, "max-age").v>> ELSE <<>>)
    \o (IF DictHas(v, "domain") THEN <<"; Domain=" \o DictGet(v, "domain").v>> ELSE <<>>)
    \o (IF DictHas(v, "path") THEN <<"; Path=" \o DictGet(v, "path").v>> ELSE <<>>)
    \o (IF DictHas(v, "secure") /\ Truthy(DictGet(v, "secure")) THEN <<"; Secure">> ELSE <<>>)
    \o (IF DictHas(v, "httponly") /\ Truthy(DictGet(v, "httponly")) THEN <<"; HttpOnly">> ELSE <<>>)

\* the final loop of build_headers: every component to bytes
to_bytes_pair(p) ==
    << IF p[1].t = "bytes" THEN p[1] ELSE Encode(p[1]),
       IF p[2].t = "bytes" THEN p[2] ELSE Encode(p[2]) >>

\* Response.build_headers
build_headers(self) ==
    LET first == << <<Encode(PyStr(CONTENT_TYPE)), Encode(PyStr(self.content_type))>> >>
        cookies == IF DictTruthy(self.cookies)
                   THEN [i \in 1..Len(self.cookies.kv) |->
                            <<Encode(PyStr(SET_COOKIE)),
                              Encode(PyStr(JoinStr(cookie_value(self.cookies.kv[i][2]), "")))>>]
                   ELSE <<>>
        explicit == IF DictTruthy(self.headers)
                    THEN [i \in 1..Len(self.headers.kv) |->
                            <<PyStr(self.headers.kv[i][1]), self.headers.kv[i][2]>>]
                    ELSE <<>>
        headers == first \o cookies \o explicit
    IN  [i \in 1..Len(headers) |-> to_bytes_pair(headers[i])]

(***************************************************************************)
(* Bounds and input sets                                                   *)
(***************************************************************************)
MaxCors == 2
MaxItems == 2
MaxCookies == 2
MaxMsgs == 3
MaxHooks == 2

Names == {"id", "page"}
Methods == {"GET", "POST", "OPTIONS"}
\* aiohttp's BaseRequest.POST_METHODS
POST_METHODS == {"PATCH", "POST", "PUT", "TRACE", "DELETE"}

\* the CORS policies an application is configured with
PolicySet ==
    { CORSOptions("*", FALSE, PyNone, PyTuple(<<>>), PyNone, PyNone),
      CORSOptions("a.example", TRUE, PyTuple(<<"X-A", "X-B">>), PyStr("X-C"), PyInt(60), PyTuple(<<"GET", "POST">>)),
      CORSOptions("b.example", FALSE, PyStr("X-D"), PyTuple(<<>>), PyInt(0), PyStr("GET")) }

SeqsUpTo(S, n) == UNION {[1..k -> S] : k \in 0..n}

\* scope['headers'] with and without an origin header
ScopeHeaders ==
    { <<>>,
      << <<PyBytes("host"), PyBytes("api.example")>>, <<PyBytes("origin"), PyBytes("http://a.example")>> >> }

\* ASGIRequest.__post_init__: the first origin header, else None
ASGIRequest_origin(sc) ==
    IF \E i \in 1..Len(sc.headers) : sc.headers[i][1] = PyBytes("origin")
    THEN LET i == CHOOSE i \in 1..Len(sc.headers) :
                    /\ sc.headers[i][1] = PyBytes("origin")
                    /\ \A j \in 1..(i - 1) : sc.headers[j][1] # PyBytes("origin")
         IN  sc.headers[i][2]
    ELSE PyNone

(***************************************************************************)
(* Routes, views and the values external code hands back                   *)
(***************************************************************************)
NoRoute ==
    [found |-> FALSE, names_varkw |-> PyNone, names_include |-> {}, names_exclude |-> {},
     va_query |-> "none", va_post |-> "none", va_headers |-> "none",
     view_cls |-> "BaseView", builtin_interface |-> "none"]

\* routes that vary in their keyword-argument declaration
KwargRoutes ==
    { [NoRoute EXCEPT !.found = TRUE, !.names_varkw = kw, !.names_include = inc,
                      !.names_exclude = ex, !.view_cls = vc[1], !.builtin_interface = vc[2]] :
        kw \in {PyNone, PyStr("kwargs")}, inc \in SUBSET Names, ex \in SUBSET Names,
        vc \in {<<"BaseView", "none">>, <<"AbstractSQLView", "BULK_INSERT">>} }

\* routes that vary in their schemas
SchemaRoutes ==
    { [NoRoute EXCEPT !.found = TRUE, !.names_include = Names,
                      !.va_query = q, !.va_post = p, !.va_headers = h,
                      !.view_cls = vc[1], !.builtin_interface = vc[2]] :
        q \in {"none", "Q"}, p \in {"none", "P"}, h \in {"none", "H"},
        vc \in {<<"BaseView", "none">>, <<"AbstractSQLView", "BULK_INSERT">>} }

\* the paths of the requests, and those of them app.route holds a route for,
\* whatever the method
Paths == {"/api/item", "/missing"}
RoutedPaths == {"/api/item"}

\* the raw keyword arguments app.route.query_path can hand back
RawKwargs == UNION {[S -> {PyStr("7")}] : S \in SUBSET Names}

\* what app.route.query_path hands back for a path that has a route, in an
\* application with these policies: a route that varies in its declaration
\* with any raw keyword arguments, or a route that varies in its schemas with
\* every name extracted.  The filter of the keyword arguments reads nothing of
\* the policies, so the former are drawn with at most one policy configured.
query_path_found(cors) ==
    (IF Len(cors) <= 1 THEN KwargRoutes \X RawKwargs ELSE {})
    \cup (SchemaRoutes \X {[n \in Names |-> PyStr("7")]})

\* a dict restricted to the keys in S
Restrict(d, S) == [k \in (DOMAIN d) \cap S |-> d[k]]

\* faulty variant of filter_call_kwargs: the keys outside names_include stay
filter_call_kwargs_keep_undeclared(ri, raw) ==
    LET excluded == IF ri.names_varkw # PyNone THEN ri.names_exclude ELSE {}
    IN  IF ~(excluded \subseteq DOMAIN raw)
        THEN [raised |-> TRUE, kwargs |-> raw]
        ELSE [raised |-> FALSE, kwargs |-> Restrict(raw, (DOMAIN raw) \ excluded)]

\* faulty variant of filter_call_kwargs: the exclusion set is removed whether
\* or not the route accepts a variable-keyword capture
filter_call_kwargs_exclude_always(ri, raw) ==
    LET after_exclude == Restrict(raw, (DOMAIN raw) \ ri.names_exclude)
    IN  IF ri.names_varkw # PyNone /\ ~(ri.names_exclude \subseteq DOMAIN raw)
        THEN [raised |-> TRUE, kwargs |-> raw]
        ELSE [raised |-> FALSE,
              kwargs |-> Restrict(after_exclude, (DOMAIN after_exclude) \cap ri.names_include)]

\* the filter of handle_request: del raises KeyError for a key that is absent
filter_call_kwargs(ri, raw) ==
    LET excluded == IF ri.names_varkw # PyNone THEN ri.names_exclude ELSE {}
        after_exclude == Restrict(raw, (DOMAIN raw) \ excluded)
    IN  IF ~(excluded \subseteq DOMAIN raw)
        THEN [raised |-> TRUE, kwargs |-> raw]
        ELSE [raised |-> FALSE,
              kwargs |-> Restrict(after_exclude, (DOMAIN after_exclude) \cap ri.names_include)]

NoResp == [cls |-> "None", status |-> 0, body |-> PyNone, headers |-> NoDict,
           content_type |-> "", cookies |-> NoDict]
\* truthiness of resp / view.response
RespTruthy(r) == r.cls # "None"

SidCookie ==
    << <<"name", PyStr("sid")>>, <<"value", PyStr("abc")>>, <<"path", PyStr("/")>>, <<"httponly", PyBool(TRUE)>> >>

\* the responses a handler leaves on the view
HandlerResponses ==
    { Response(200, PyStr("ok"), NoDict, "text/plain", NoDict),
      JSONResponse(200, PyDict("{\"code\": 0}"),
                   SomeDict(<< <<"X-Powered-By", PyStr("slim")>>, <<ACCESS_CONTROL_ALLOW_ORIGIN, PyStr("*")>> >>),
                   SomeDict(<< <<"sid", SidCookie>> >>)),
      Response(500, PyBytes("oops"), SomeDict(<<>>), "text/plain", NoDict) }

\* the response a pre-check hook (view.prepare) finishes the view with
PrepareResponse == JSONResponse(200, PyDict("{\"code\": -249}"), NoDict, NoDict)

\* ErrorCatchContext: the response a typed error is translated into
ErrorResponse(e) == JSONResponse(200, PyDict("{\"code\": \"" \o e \o "\"}"), NoDict, NoDict)

\* a validated_* field of the view: whether it is set, its value, and how
\* many times it was written
Unset == [set |-> FALSE, val |-> <<>>, n |-> 0]
\* view._.validated_x = x, on a field that was old
Assign(old, x) == [set |-> TRUE, val |-> x, n |-> old.n + 1]

NoPost == [read |-> FALSE, items |-> PyNone, elems |-> <<>>, ok_w |-> FALSE, ok_post |-> FALSE]

\* view_cls._build(app, request) before prepare: a fresh view
NewView(cls, method, params_ok, headers_ok) ==
    [built |-> TRUE, cls |-> cls, method |-> method, is_finished |-> FALSE, response |-> NoResp,
     route_info |-> <<>>, current_interface |-> "none",
     params_ok |-> params_ok, headers_ok |-> headers_ok, post_data |-> NoPost,
     validated_query |-> Unset, validated_post |-> Unset,
     validated_headers |-> Unset, validated_write_values |-> Unset]

NoView == [NewView("BaseView", "", FALSE, FALSE) EXCEPT !.built = FALSE]

\* what view.post_data() can yield: items absent, a str, or a list whose
\* elements are valid (TRUE) or not against the write-value schema; the body
\* as a whole is valid or not against the write-value and the post schema.
\* What no declared schema reads is left at its default.
PostBodies(v) ==
    { [read |-> TRUE, items |-> it[1], elems |-> it[2], ok_w |-> w, ok_post |-> p] :
        it \in IF v.write_value = "none" THEN {<<PyNone, <<>> >>}
               ELSE {<<PyNone, <<>> >>, <<PyStr("a,b"), <<>> >>}
                    \cup {<<PyVal("list", "[...]", <<>>), e>> : e \in SeqsUpTo(BOOLEAN, MaxItems)},
        w \in IF v.write_value = "none" THEN {TRUE} ELSE BOOLEAN,
        p \in IF v.post = "none" THEN {TRUE} ELSE BOOLEAN }

\* ErrorCatchContext.__exit__ on a typed error: the view is finished with it
ErrorCatchContext(v, e) == [v EXCEPT !.is_finished = TRUE, !.response = ErrorResponse(e)]

\* a validated model instance: the schema and the data it was built from
do_validate(va_model, data) == <<va_model, data>>

(***************************************************************************)
(* view_validate_check                                                     *)
(***************************************************************************)
\* faulty variant of v_raise: what was validated so far is left on the view
v_raise_partial(e) ==
    /\ err' = e
    /\ view' = ErrorCatchContext([view EXCEPT !.validated_write_values = Assign(view.validated_write_values, write_values)], e)
    /\ pc' = "v_done"

\* a typed error is raised inside the with-block: ErrorCatchContext catches
\* and translates it, and view_validate_check is left
v_raise(e) ==
    /\ err' = e
    /\ view' = ErrorCatchContext(view, e)
    /\ pc' = "v_done"

\* faulty variant of carries_body: the body steps run for every method
carries_body_always(method) == TRUE

\* if view.method in BaseRequest.POST_METHODS
carries_body(method) == method \in POST_METHODS

\* if va_query: view._.validated_query = do_validate(va_query, view.params, InvalidParams)
VQuery ==
    /\ pc = "v_query"
    /\ calls' = IF va.query # "none" THEN Append(calls, "do_validate:query") ELSE calls
    /\ IF va.query # "none" /\ ~view.params_ok
       THEN v_raise("InvalidParams")
       ELSE /\ view' = IF va.query # "none"
                       THEN [view EXCEPT !.validated_query = Assign(view.validated_query, do_validate(va.query, "params"))]
                       ELSE view
            /\ pc' = IF carries_body(view.method) THEN "v_post_data" ELSE "v_headers"
            /\ err' = err
    /\ UNCHANGED <<cors_options, scope, route_info, call_kwargs_raw, call_kwargs, resp, body, sent, handler_kwargs, exc>>
    /\ UNCHANGED <<va, write_values, item_idx>>
    /\ UNCHANGED <<lifeVars, bhVars, ormVars, ccVars>>

\* post_data = await view.post_data()
VPostData ==
    /\ pc = "v_post_data"
    /\ \E pd \in PostBodies(va) : view' = [view EXCEPT !.post_data = pd]
    /\ calls' = Append(calls, "post_data")
    /\ pc' = "v_write"
    /\ UNCHANGED <<cors_options, scope, route_info, call_kwargs_raw, call_kwargs, resp, body, sent, handler_kwargs, exc>>
    /\ UNCHANGED valVars
    /\ UNCHANGED <<lifeVars, bhVars, ormVars, ccVars>>

\* if va_write_value: if isinstance(view, AbstractSQLView): ... up to the loop
VWrite ==
    /\ pc = "v_write"
    /\ IF va.write_value # "none" /\ view.cls = "AbstractSQLView"
       THEN IF view.current_interface = "BULK_INSERT"
            THEN IF view.post_data.items.t \in {"list", "tuple"}
                 THEN /\ write_values' = <<>>
                      /\ item_idx' = 1
                      /\ pc' = "v_items"
                      /\ UNCHANGED <<view, err, calls>>
                 ELSE /\ write_values' = <<>>
                      /\ v_raise("InvalidPostData")
                      /\ UNCHANGED <<item_idx, calls>>
            ELSE IF view.current_interface \in {"SET", "NEW"}
                 THEN /\ calls' = Append(calls, "do_validate:write_value")
                      /\ UNCHANGED item_idx
                      /\ IF view.post_data.ok_w
                         THEN /\ write_values' = <<do_validate(va.write_value, "post_data")>>
                              /\ view' = [view EXCEPT !.validated_write_values = Assign(view.validated_write_values, write_values')]
                              /\ pc' = "v_post"
                              /\ err' = err
                         ELSE /\ write_values' = <<>>
                              /\ v_raise("InvalidPostData")
                 ELSE /\ write_values' = <<>>
                      /\ view' = [view EXCEPT !.validated_write_values = Assign(view.validated_write_values, <<>>)]
                      /\ pc' = "v_post"
                      /\ UNCHANGED <<item_idx, err, calls>>
       ELSE /\ pc' = "v_post"
            /\ UNCHANGED <<view, write_values, item_idx, err, calls>>
    /\ UNCHANGED <<cors_options, scope, route_info, call_kwargs_raw, call_kwargs, resp, body, sent, handler_kwargs, exc>>
    /\ UNCHANGED va
    /\ UNCHANGED <<lifeVars, bhVars, ormVars, ccVars>>

\* the assignment after the loop
assign_write_values(v, wv) == [v EXCEPT !.validated_write_values = Assign(v.validated_write_values, wv)]

\* for i in items: write_values.append(do_validate(va_write_value, i, InvalidPostData));
\* after the loop: view._.validated_write_values = write_values
VItems ==
    /\ pc = "v_items"
    /\ IF item_idx > Len(view.post_data.elems)
       THEN /\ view' = assign_write_values(view, write_values)
            /\ pc' = "v_post"
            /\ UNCHANGED <<write_values, item_idx, err, calls>>
       ELSE /\ calls' = Append(calls, "do_validate:write_value")
            /\ IF view.post_data.elems[item_idx]
               THEN /\ write_values' = Append(write_values, do_validate(va.write_value, ToString(item_idx)))
                    /\ item_idx' = item_idx + 1
                    /\ UNCHANGED <<view, pc, err>>
               ELSE /\ v_raise("InvalidPostData")
                    /\ UNCHANGED <<write_values, item_idx>>
    /\ UNCHANGED <<cors_options, scope, route_info, call_kwargs_raw, call_kwargs, resp, body, sent, handler_kwargs, exc>>
    /\ UNCHANGED va
    /\ UNCHANGED <<lifeVars, bhVars, ormVars, ccVars>>

\* if va_post: view._.validated_post = do_validate(va_post, await view.post_data(), InvalidPostData)
VPost ==
    /\ pc = "v_post"
    /\ calls' = IF va.post # "none" THEN Append(calls, "do_validate:post") ELSE calls
    /\ IF va.post # "none" /\ ~view.post_data.ok_post
       THEN v_raise("InvalidPostData")
       ELSE /\ view' = IF va.post # "none"
                       THEN [view EXCEPT !.validated_post = Assign(view.validated_post, do_validate(va.post, "post_data"))]
                       ELSE view
            /\ pc' = "v_headers"
            /\ err' = err
    /\ UNCHANGED <<cors_options, scope, route_info, call_kwargs_raw, call_kwargs, resp, body, sent, handler_kwargs, exc>>
    /\ UNCHANGED <<va, write_values, item_idx>>
    /\ UNCHANGED <<lifeVars, bhVars, ormVars, ccVars>>

\* if va_headers: view._.validated_headers = do_validate(va_headers, view.headers, InvalidHeaders)
VHeaders ==
    /\ pc = "v_headers"
    /\ calls' = IF va.headers # "none" THEN Append(calls, "do_validate:headers") ELSE calls
    /\ IF va.headers # "none" /\ ~view.headers_ok
       THEN v_raise("InvalidHeaders")
       ELSE /\ view' = IF va.headers # "none"
                       THEN [view EXCEPT !.validated_headers = Assign(view.validated_headers, do_validate(va.headers, "headers"))]
                       ELSE view
            /\ pc' = "v_done"
            /\ err' = err
    /\ UNCHANGED <<cors_options, scope, route_info, call_kwargs_raw, call_kwargs, resp, body, sent, handler_kwargs, exc>>
    /\ UNCHANGED <<va, write_values, item_idx>>
    /\ UNCHANGED <<lifeVars, bhVars, ormVars, ccVars>>

(***************************************************************************)
(* handle_request, scope type http                                         *)
(***************************************************************************)
StartEvent(status, headers) == [type |-> "http.response.start", status |-> status, headers |-> headers]
BodyEvent(b) == [type |-> "http.response.body", body |-> b]

\* faulty variant of take_response: a view without a response answers 200
take_response_default(v, r) ==
    IF RespTruthy(v.response) THEN v.response ELSE Response(200, PyStr(""), NoDict, "text/plain", NoDict)

\* resp after "if view.response: resp = view.response"
take_response(v, r) == IF RespTruthy(v.response) THEN v.response ELSE r

RECURSIVE merge_cors_keep_existing(_, _, _)
\* faulty variant of merge_cors: a header the response has already is kept
merge_cors_keep_existing(r, opts, origin) ==
    IF Len(opts) = 0 THEN r
    ELSE LET packed == pack_headers(opts[1], origin)
             fresh == SelectSeq(packed, LAMBDA p : ~DictHas(r.headers.kv, p[1]))
             r1 == IF DictTruthy(r.headers)
                   THEN [r EXCEPT !.headers = SomeDict(DictUpdate(r.headers.kv, fresh))]
                   ELSE [r EXCEPT !.headers = SomeDict(packed)]
         IN  merge_cors_keep_existing(r1, Tail(opts), origin)

RECURSIVE merge_cors(_, _, _)
\* for i in app.cors_options: update resp.headers with i.pack_headers(origin),
\* or set them when resp.headers is falsy
merge_cors(r, opts, origin) ==
    IF Len(opts) = 0 THEN r
    ELSE LET packed == pack_headers(opts[1], origin)
             r1 == IF DictTruthy(r.headers)
                   THEN [r EXCEPT !.headers = SomeDict(DictUpdate(r.headers.kv, packed))]
                   ELSE [r EXCEPT !.headers = SomeDict(packed)]
         IN  merge_cors(r1, Tail(opts), origin)

\* faulty variant of skips_dispatch: an OPTIONS request is only kept from the
\* routes when CORS policies are configured
skips_dispatch_with_cors(sc) == sc.method = "OPTIONS" /\ Len(cors_options) > 0

\* if scope['method'] == 'OPTIONS': ... else: the routes
skips_dispatch(sc) == sc.method = "OPTIONS"

\* scope['method'] == 'OPTIONS': the response of the last policy, if any
Preflight ==
    /\ pc = "start"
    /\ skips_dispatch(scope)
    /\ resp' = IF Len(cors_options) > 0
               THEN Response(200, PyNone,
                             SomeDict(pack_headers(cors_options[Len(cors_options)], ASGIRequest_origin(scope))),
                             "text/plain", NoDict)
               ELSE NoResp
    /\ pc' = "respond"
    /\ UNCHANGED <<cors_options, scope, route_info, call_kwargs_raw, call_kwargs, view, body, sent, calls, handler_kwargs, exc>>
    /\ UNCHANGED <<valVars, lifeVars, bhVars, ormVars, ccVars>>

\* route_info, call_kwargs_raw = app.route.query_path(method, path), then the
\* filter of call_kwargs, up to the await of view_cls._build
QueryPath ==
    /\ pc = "start"
    /\ ~skips_dispatch(scope)
    /\ \E found \in (IF scope.path \in RoutedPaths THEN query_path_found(cors_options)
                     ELSE {<<NoRoute, <<>> >>}) :
       LET ri == found[1]
           raw == found[2]
       IN
        /\ route_info' = ri
        /\ call_kwargs_raw' = raw
        /\ IF ~ri.found
           THEN /\ pc' = "respond"
                /\ UNCHANGED <<call_kwargs, exc>>
           ELSE LET f == filter_call_kwargs(ri, raw)
                IN  IF f.raised
                    THEN /\ pc' = "raised"
                         /\ exc' = "KeyError"
                         /\ UNCHANGED call_kwargs
                    ELSE /\ pc' = "build"
                         /\ call_kwargs' = f.kwargs
                         /\ UNCHANGED exc
    /\ calls' = Append(calls, "query_path")
    /\ UNCHANGED <<cors_options, scope, view, resp, body, sent, handler_kwargs>>
    /\ UNCHANGED <<valVars, lifeVars, bhVars, ormVars, ccVars>>

\* view = await route_info.view_cls._build(app, request), which runs the
\* pre-check hook, then the assignments up to the first await that follows
BuildView ==
    /\ pc = "build"
    /\ \E fin \in {"no", "response", "bare"},
          pok \in IF route_info.va_query = "none" THEN {TRUE} ELSE BOOLEAN,
          hok \in IF route_info.va_headers = "none" THEN {TRUE} ELSE BOOLEAN :
        LET v0 == NewView(route_info.view_cls, scope.method, pok, hok)
            v1 == [v0 EXCEPT !.is_finished = (fin # "no"),
                             !.response = IF fin = "response" THEN PrepareResponse ELSE NoResp,
                             !.route_info = call_kwargs,
                             !.current_interface = IF route_info.view_cls = "AbstractSQLView"
                                                   THEN route_info.builtin_interface ELSE "none"]
        IN  /\ view' = v1
            /\ IF ~v1.is_finished
               THEN /\ pc' = "v_query"
                    /\ va' = [query |-> route_info.va_query, post |-> route_info.va_post,
                              headers |-> route_info.va_headers, write_value |-> "none"]
                    /\ calls' = calls \o <<"_build", "view_validate_check">>
                    /\ resp' = resp
               ELSE /\ pc' = "respond"
                    /\ va' = va
                    /\ calls' = Append(calls, "_build")
                    /\ resp' = take_response(v1, resp)
    /\ UNCHANGED <<cors_options, scope, route_info, call_kwargs_raw, call_kwargs, body, sent, handler_kwargs, exc>>
    /\ UNCHANGED <<write_values, item_idx, err>>
    /\ UNCHANGED <<lifeVars, bhVars, ormVars, ccVars>>

\* faulty variant of handler_runs: the view is not looked at again
handler_runs_unchecked(v) == TRUE

\* whether the second "if not view.is_finished" lets the handler run
handler_runs(v) == ~v.is_finished

\* after view_validate_check: the handler, if the view is still not finished,
\* then "if view.response: resp = view.response"
CallHandler ==
    /\ pc = "v_done"
    /\ IF handler_runs(view)
       THEN /\ calls' = Append(calls, "handler")
            /\ handler_kwargs' = Append(handler_kwargs, call_kwargs)
            /\ \E out \in HandlerResponses \cup {NoResp} , raises \in BOOLEAN :
                IF raises
                THEN /\ out = NoResp
                     /\ pc' = "raised"
                     /\ exc' = "HandlerError"
                     /\ UNCHANGED <<view, resp>>
                ELSE /\ view' = [view EXCEPT !.response = out, !.is_finished = RespTruthy(out)]
                     /\ resp' = take_response(view', resp)
                     /\ pc' = "respond"
                     /\ UNCHANGED exc
       ELSE /\ resp' = take_response(view, resp)
            /\ pc' = "respond"
            /\ UNCHANGED <<view, calls, handler_kwargs, exc>>
    /\ UNCHANGED <<cors_options, scope, route_info, call_kwargs_raw, call_kwargs, body, sent>>
    /\ UNCHANGED <<valVars, lifeVars, bhVars, ormVars, ccVars>>

\* if resp: body = await resp.get_body()
Respond ==
    /\ pc = "respond"
    /\ IF RespTruthy(resp)
       THEN /\ body' = get_body(resp)
            /\ pc' = "send_start"
       ELSE /\ body' = body
            /\ pc' = "send_404_start"
    /\ UNCHANGED <<cors_options, scope, route_info, call_kwargs_raw, call_kwargs, view, resp, sent, calls, handler_kwargs, exc>>
    /\ UNCHANGED <<valVars, lifeVars, bhVars, ormVars, ccVars>>

\* the CORS merge, build_headers and the first send
SendStart ==
    /\ pc = "send_start"
    /\ resp' = IF Len(cors_options) > 0
               THEN merge_cors(resp, cors_options, ASGIRequest_origin(scope))
               ELSE resp
    /\ sent' = Append(sent, StartEvent(resp'.status, build_headers(resp')))
    /\ pc' = "send_body"
    /\ UNCHANGED <<cors_options, scope, route_info, call_kwargs_raw, call_kwargs, view, body, calls, handler_kwargs, exc>>
    /\ UNCHANGED <<valVars, lifeVars, bhVars, ormVars, ccVars>>

\* faulty variant of after_send_body: no return, the fallback follows
after_send_body_fall_through == "send_404_start"

\* after the response's body event: return
after_send_body == "done"

\* the second send, then return
SendBody ==
    /\ pc = "send_body"
    /\ sent' = Append(sent, BodyEvent(body))
    /\ pc' = after_send_body
    /\ UNCHANGED <<cors_options, scope, route_info, call_kwargs_raw, call_kwargs, view, resp, body, calls, handler_kwargs, exc>>
    /\ UNCHANGED <<valVars, lifeVars, bhVars, ormVars, ccVars>>

\* faulty variant of fallback_start: the CORS headers are merged in
fallback_start_with_cors ==
    StartEvent(404, << <<PyBytes("content-type"), PyBytes("text/plain")>> >>
                    \o Tail(build_headers(merge_cors(Response(404, PyNone, NoDict, "text/plain", NoDict),
                                                     cors_options, ASGIRequest_origin(scope)))))

\* the literal start event of the fallback
fallback_start == StartEvent(404, << <<PyBytes("content-type"), PyBytes("text/plain")>> >>)

\* the literal body event of the fallback
fallback_body == BodyEvent(PyBytes("not found"))

\* the fallback: start event of the 404
Send404Start ==
    /\ pc = "send_404_start"
    /\ sent' = Append(sent, fallback_start)
    /\ pc' = "send_404_body"
    /\ UNCHANGED <<cors_options, scope, route_info, call_kwargs_raw, call_kwargs, view, resp, body, calls, handler_kwargs, exc>>
    /\ UNCHANGED <<valVars, lifeVars, bhVars, ormVars, ccVars>>

\* the fallback: body event of the 404
Send404Body ==
    /\ pc = "send_404_body"
    /\ sent' = Append(sent, fallback_body)
    /\ pc' = "done"
    /\ UNCHANGED <<cors_options, scope, route_info, call_kwargs_raw, call_kwargs, view, resp, body, calls, handler_kwargs, exc>>
    /\ UNCHANGED <<valVars, lifeVars, bhVars, ormVars, ccVars>>

(***************************************************************************)
(* PeeweeSQLFunctions (slim/support/peewee/view.py)                        *)
(***************************************************************************)
MaxOps == 3

\* slim.retcode.RETCODE, by name
RETCODE_SUCCESS == "SUCCESS"
RETCODE_FAILED == "FAILED"
RETCODE_NOT_FOUND == "NOT_FOUND"
RETCODE_INVALID_HTTP_PARAMS == "INVALID_HTTP_PARAMS"

PyList(xs) == PyVal("list", "[...]", xs)

\* view.fields: the fields of the model, by name
ViewFields == [name |-> "TextField", flag |-> "BooleanField", bin |-> "BlobField"]

\* a row of the table
Row(id, name, flag, bin) == [id |-> id, name |-> PyStr(name), flag |-> PyBool(flag), bin |-> PyBytes(bin)]
NoRow == Row(0, "", FALSE, "")

\* binascii.unhexlify on the texts that are hexadecimal
unhexlify == [h \in {"", "61", "6162"} |-> CASE h = "61" -> "a" [] h = "6162" -> "ab" [] OTHER -> ""]

\* to_bin(value): binascii.Error for an odd-length text or a non-hexadecimal digit
to_bin(x) ==
    IF Len(x.v) % 2 = 1 \/ x.v \notin DOMAIN unhexlify
    THEN [exc |-> "binascii.Error", val |-> x]
    ELSE [exc |-> "none", val |-> PyBytes(unhexlify[x.v])]

\* bool_parse(value): ValueError for a text that is neither true nor false
bool_parse(x) ==
    IF x.v \in {"true", "True", "1"} THEN [exc |-> "none", val |-> PyBool(TRUE)]
    ELSE IF x.v \in {"false", "False", "0"} THEN [exc |-> "none", val |-> PyBool(FALSE)]
    ELSE [exc |-> "ValueError", val |-> x]

\* conv_func of _get_args for a field, "" when there is none
conv_func_of(field) ==
    IF field = "BlobField" THEN "to_bin"
    ELSE IF field = "BooleanField" THEN "bool_parse"
    ELSE ""

conv_call(conv_func, x) == IF conv_func = "to_bin" THEN to_bin(x) ELSE bool_parse(x)

RECURSIVE conv_map(_, _, _, _)
\* list(map(conv_func, value)): the first element that fails raises
conv_map(conv_func, xs, i, acc) ==
    IF i > Len(xs) THEN [exc |-> "none", val |-> PyList(acc)]
    ELSE LET c == conv_call(conv_func, xs[i])
         IN  IF c.exc # "none" THEN [exc |-> c.exc, val |-> PyList(xs)]
             ELSE conv_map(conv_func, xs, i + 1, Append(acc, c.val))

\* the try-block of _get_args: the converted value, or the exception raised
convert(conv_func, op, value) ==
    IF op = "in" THEN conv_map(conv_func, value.items, 1, <<>>)
    ELSE conv_call(conv_func, value)

_peewee_method_map == [op \in {"=", "!=", "in"} |->
                        CASE op = "=" -> "__eq__" [] op = "!=" -> "__ne__" [] OTHER -> "__lshift__"]

\* self.err: None, or a (code, message) pair
NoErr == [set |-> FALSE, code |-> "", msg |-> ""]
Err(code, msg) == [set |-> TRUE, code |-> code, msg |-> msg]

\* getattr(field, method)(value): a peewee expression
Expression(field_name, method, value) == [field |-> field_name, method |-> method, value |-> value]

RECURSIVE _get_args(_, _, _, _)
\* _get_args(args) from position i on, pw_args and self.err being what the
\* loop has built so far: [err, none, ret], none when None is returned
_get_args(args, i, pw_args, e) ==
    IF i > Len(args) THEN [err |-> e, none |-> FALSE, ret |-> pw_args]
    ELSE LET a == args[i]
             conv_func == conv_func_of(ViewFields[a.field])
             c == IF conv_func # "" THEN convert(conv_func, a.op, a.value)
                  ELSE [exc |-> "none", val |-> a.value]
         IN  CASE c.exc = "binascii.Error" ->
                    [err |-> Err(RETCODE_INVALID_HTTP_PARAMS, "Invalid query value for blob: Odd-length string"),
                     none |-> TRUE, ret |-> <<>>]
               [] c.exc = "ValueError" ->
                    _get_args(args, i + 1,
                              Append(pw_args, Expression(a.field, _peewee_method_map[a.op], a.value)),
                              Err(RETCODE_INVALID_HTTP_PARAMS, "Cannot interpret value as a boolean"))
               [] OTHER ->
                    _get_args(args, i + 1,
                              Append(pw_args, Expression(a.field, _peewee_method_map[a.op], c.val)), e)

\* a select query, or None
NoQuery == [none |-> TRUE, where |-> <<>>]
Query(nargs) == [none |-> FALSE, where |-> nargs]

\* _make_select(info) on an instance whose self.err is e: [err, q]
_make_select(e, info) ==
    LET g == _get_args(info.args, 1, <<>>, e)
    IN  IF g.err.set THEN [err |-> g.err, q |-> NoQuery]
        ELSE [err |-> g.err, q |-> Query(g.ret)]

\* the database's evaluation of one expression on one row
Holds(x, row) ==
    CASE x.method = "__eq__" -> row[x.field] = x.value
      [] x.method = "__ne__" -> row[x.field] # x.value
      [] OTHER -> \E k \in 1..Len(x.value.items) : row[x.field] = x.value.items[k]

\* the positions of the rows a query selects
Selected(q, rows) == {k \in 1..Len(rows) : \A j \in 1..Len(q.where) : Holds(q.where[j], rows[k])}

\* what an operation hands back as the second component of its result
Value(t, row, items, text) == [t |-> t, row |-> row, items |-> items, text |-> text]
NoneValue == Value("NoneType", NoRow, <<>>, "None")
PeeweeAbilityRecord(row) == Value("PeeweeAbilityRecord", row, <<>>, "")
\* pagination_calc(count, size, page) with the items of the page
Page(count, items) == Value("dict", NoRow, items, ToString(count))

\* how a call of an operation ends
NotCalled == [kind |-> "none", pair |-> FALSE, code |-> "", value |-> NoneValue, exc |-> ""]
\* return code, value
Returned(code, value) == [NotCalled EXCEPT !.kind = "return", !.pair = TRUE, !.code = code, !.value = value]
\* the function body ends without a return statement: None is returned
ReturnedNone == [NotCalled EXCEPT !.kind = "return"]
Raised(e) == [NotCalled EXCEPT !.kind = "raise", !.exc = e]

\* q.get(): the first selected row, or DoesNotExist
q_get(q, rows) ==
    LET sel == Selected(q, rows)
    IN  IF sel = {} THEN [exc |-> "DoesNotExist", row |-> NoRow, at |-> 0]
        ELSE LET k == CHOOSE k \in sel : \A j \in sel : k <= j
             IN  [exc |-> "none", row |-> rows[k], at |-> k]

\* return self.err
return_err(e) == Returned(e.code, Value("str", NoRow, <<>>, e.msg))

\* faulty variant of select_one: DoesNotExist is not caught
select_one_uncaught(e, info, rows) ==
    LET m == _make_select(e, info)
        g == q_get(m.q, rows)
    IN  IF m.err.set
        THEN [ret |-> return_err(m.err), err |-> m.err, log |-> <<>>]
        ELSE IF g.exc = "DoesNotExist"
             THEN [ret |-> Raised("DoesNotExist"), err |-> m.err, log |-> <<"get">>]
             ELSE [ret |-> Returned(RETCODE_SUCCESS, PeeweeAbilityRecord(g.row)),
                   err |-> m.err, log |-> <<"get">>]

\* select_one(info) on an instance whose self.err is e: [ret, err, log]
select_one(e, info, rows) ==
    LET m == _make_select(e, info)
        g == q_get(m.q, rows)
    IN  IF m.err.set
        THEN [ret |-> return_err(m.err), err |-> m.err, log |-> <<>>]
        ELSE IF g.exc = "DoesNotExist"
             THEN [ret |-> Returned(RETCODE_NOT_FOUND, NoneValue), err |-> m.err, log |-> <<"get">>]
             ELSE [ret |-> Returned(RETCODE_SUCCESS, PeeweeAbilityRecord(g.row)),
                   err |-> m.err, log |-> <<"get">>]

\* q.paginate(page, size) on the selected rows
paginate(q, rows, page, size) ==
    LET sel == Selected(q, rows)
        all == SelectSeq([k \in 1..Len(rows) |-> k], LAMBDA k : k \in sel)
        first == size * (page - 1) + 1
        last == IF size * page < Len(all) THEN size * page ELSE Len(all)
    IN  [j \in 1..(IF last >= first THEN last - first + 1 ELSE 0) |->
            PeeweeAbilityRecord(rows[all[first + j - 1]])]

\* select_pagination_list(info, size, page): q.count() on the result of
\* _make_select, which is None when self.err is set
select_pagination_list(e, info, size, page, rows) ==
    LET m == _make_select(e, info)
    IN  IF m.q.none
        THEN [ret |-> Raised("AttributeError"), err |-> m.err, log |-> <<>>]
        ELSE [ret |-> Returned(RETCODE_SUCCESS,
                               Page(Cardinality(Selected(m.q, rows)), paginate(m.q, rows, page, size))),
              err |-> m.err, log |-> <<"count", "paginate">>]

\* for k, v in data.items(): if k in self.view.fields: setattr(item, k, v)
set_fields(item, data) ==
    [f \in DOMAIN item |-> IF f \in DOMAIN data /\ f \in DOMAIN ViewFields THEN data[f] ELSE item[f]]

\* update(info, data), the save raising peewee.DatabaseError when db_fails:
\* [ret, err, log, rows]
update(e, info, data, rows, db_fails) ==
    LET m == _make_select(e, info)
        g == q_get(m.q, rows)
    IN  IF m.err.set
        THEN [ret |-> return_err(m.err), err |-> m.err, log |-> <<>>, rows |-> rows]
        ELSE IF g.exc = "DoesNotExist"
             THEN [ret |-> Returned(RETCODE_NOT_FOUND, NoneValue), err |-> m.err,
                   log |-> <<"get">>, rows |-> rows]
             ELSE IF db_fails
                  THEN [ret |-> ReturnedNone, err |-> m.err,
                        log |-> <<"get", "atomic", "save", "DatabaseError", "rollback">>, rows |-> rows]
                  ELSE [ret |-> Returned(RETCODE_SUCCESS, Value("dict", NoRow, <<>>, "{'count': 1}")),
                        err |-> m.err, log |-> <<"get", "atomic", "save">>,
                        rows |-> [rows EXCEPT ![g.at] = set_fields(g.row, data)]]

\* view.model.create(**kwargs): the new row, the fields not given at their default
create(kwargs, rows) ==
    set_fields(Row(Len(rows) + 1, "", FALSE, ""), kwargs)

\* insert(data), create raising peewee.DatabaseError when db_fails or when the
\* row has no name: [ret, err, log, rows]
insert(e, data, rows, db_fails) ==
    LET kwargs == Restrict(data, DOMAIN ViewFields)
    IN  IF Cardinality(DOMAIN data) = 0
        THEN [ret |-> Returned(RETCODE_INVALID_HTTP_PARAMS, NoneValue), err |-> e,
              log |-> <<>>, rows |-> rows]
        ELSE IF db_fails \/ "name" \notin DOMAIN kwargs
             THEN [ret |-> Returned(RETCODE_FAILED, NoneValue), err |-> e,
                   log |-> <<"atomic", "create", "DatabaseError", "rollback">>, rows |-> rows]
             ELSE [ret |-> Returned(RETCODE_SUCCESS, PeeweeAbilityRecord(create(kwargs, rows))), err |-> e,
                   log |-> <<"atomic", "create">>, rows |-> Append(rows, create(kwargs, rows))]

\* a filter triple of info['args']
Arg(field, op, value) == [field |-> field, op |-> op, value |-> value]

\* the info['args'] of a request: no filter, filters whose value converts and
\* filters whose value does not, alone, inside an 'in' list and before
\* another filter
InfoArgs ==
    { <<>>,
      <<Arg("name", "=", PyStr("Alice"))>>,
      <<Arg("name", "!=", PyStr("Alice"))>>,
      <<Arg("flag", "=", PyStr("true"))>>,
      <<Arg("flag", "=", PyStr("maybe"))>>,
      <<Arg("bin", "=", PyStr("6162"))>>,
      <<Arg("bin", "=", PyStr("abc"))>>,
      <<Arg("bin", "=", PyStr("zz"))>>,
      <<Arg("flag", "in", PyList(<<PyStr("true"), PyStr("maybe")>>))>>,
      <<Arg("flag", "in", PyList(<<PyStr("true"), PyStr("0")>>))>>,
      <<Arg("bin", "in", PyList(<<PyStr("6162"), PyStr("abc")>>))>>,
      <<Arg("flag", "=", PyStr("maybe")), Arg("name", "=", PyStr("Alice"))>>,
      <<Arg("bin", "=", PyStr("abc")), Arg("name", "=", PyStr("Alice"))>> }

Infos == {[args |-> a] : a \in InfoArgs}

\* the data of an update or an insert: empty, known fields, an unknown field
Datas ==
    { [k \in {} |-> PyNone],
      [k \in {"name"} |-> PyStr("Alice")],
      [k \in {"name", "flag"} |-> IF k = "name" THEN PyStr("Bob") ELSE PyBool(TRUE)],
      [k \in {"nick"} |-> PyStr("al")] }

NoOp == [name |-> "none", info |-> [args |-> <<>>], data |-> [k \in {} |-> PyNone],
         rows_before |-> <<>>]
Op(name, info, data, rows) == [name |-> name, info |-> info, data |-> data, rows_before |-> rows]

\* a request's view calls select_one on its PeeweeSQLFunctions instance
SqlSelectOne ==
    /\ sql_n < MaxOps
    /\ \E info \in Infos :
        LET r == select_one(NoErr, info, db_rows)
        IN  /\ sql_op' = Op("select_one", info, NoOp.data, db_rows)
            /\ sql_ret' = r.ret
            /\ sql_err' = r.err
            /\ db_log' = r.log
    /\ sql_n' = sql_n + 1
    /\ UNCHANGED db_rows
    /\ UNCHANGED <<httpVars, valVars, lifeVars, bhVars, ccVars>>

\* a request's view calls select_pagination_list
SqlSelectPaginationList ==
    /\ sql_n < MaxOps
    /\ \E info \in Infos, page \in {1, 2} :
        LET r == select_pagination_list(NoErr, info, 1, page, db_rows)
        IN  /\ sql_op' = Op("select_pagination_list", info, NoOp.data, db_rows)
            /\ sql_ret' = r.ret
            /\ sql_err' = r.err
            /\ db_log' = r.log
    /\ sql_n' = sql_n + 1
    /\ UNCHANGED db_rows
    /\ UNCHANGED <<httpVars, valVars, lifeVars, bhVars, ccVars>>

\* a request's view calls update
SqlUpdate ==
    /\ sql_n < MaxOps
    /\ \E info \in Infos, data \in Datas, db_fails \in BOOLEAN :
        LET r == update(NoErr, info, data, db_rows, db_fails)
        IN  /\ sql_op' = Op("update", info, data, db_rows)
            /\ sql_ret' = r.ret
            /\ sql_err' = r.err
            /\ db_log' = r.log
            /\ db_rows' = r.rows
    /\ sql_n' = sql_n + 1
    /\ UNCHANGED <<httpVars, valVars, lifeVars, bhVars, ccVars>>

\* a request's view calls insert
SqlInsert ==
    /\ sql_n < MaxOps
    /\ \E data \in Datas, db_fails \in BOOLEAN :
        LET r == insert(NoErr, data, db_rows, db_fails)
        IN  /\ sql_op' = Op("insert", NoOp.info, data, db_rows)
            /\ sql_ret' = r.ret
            /\ sql_err' = r.err
            /\ db_log' = r.log
            /\ db_rows' = r.rows
    /\ sql_n' = sql_n + 1
    /\ UNCHANGED <<httpVars, valVars, lifeVars, bhVars, ccVars>>

(***************************************************************************)
(* Concurrent requests: several handle_request coroutines, each with its   *)
(* own locals, interleaving at their awaits                                *)
(***************************************************************************)
MaxReq == 2
Reqs == 1..MaxReq
\* what tells the data of request i from the data of the others
Tag(i) == "r" \o ToString(i)

\* the route the requests resolve to
CcRoute == [NoRoute EXCEPT !.found = TRUE, !.names_include = {"id"}, !.va_query = "Q", !.va_post = "P"]

\* what app.route.query_path extracts from the path of request i
CcRawKwargs(i) == [n \in {"id", "page"} |-> IF n = "id" THEN PyStr(Tag(i)) ELSE PyStr("1")]

CcScope(i, method) ==
    [type |-> "http", method |-> method, path |-> "/api/item",
     headers |-> << <<PyBytes("origin"), PyBytes("http://" \o Tag(i) \o ".example")>> >>]

\* what the handler of a request has read when it ran
NotSeen == [called |-> FALSE, kwargs |-> <<>>, route_info |-> <<>>, query |-> Unset, post |-> Unset]

\* the locals of one handle_request call at its start; view is a reference
\* into the view instances, 0 before the view is built; produced is the
\* response the processing of this request has left so far
CcLocals(i, method) ==
    [pc |-> "start", scope |-> CcScope(i, method), route_info |-> NoRoute, call_kwargs |-> <<>>,
     view |-> 0, resp |-> NoResp, body |-> PyNone, handler_saw |-> NotSeen, produced |-> NoResp]

\* the response the handler of request i finishes its view with
CcHandlerResponse(i) ==
    JSONResponse(200, PyDict("{\"id\": \"" \o Tag(i) \o "\"}"),
                 SomeDict(<< <<"X-Request", PyStr(Tag(i))>> >>), NoDict)

\* faulty variant of local_view: the view built last, whoever built it
local_view_latest(k, heap) == Len(heap)

\* the local variable view of a handle_request call
local_view(k, heap) == k.view

\* route_info, call_kwargs_raw = app.route.query_path(...), the filter, up to
\* the await of _build
CcQueryPath(i) ==
    LET k == cc_req[i]
        f == filter_call_kwargs(CcRoute, CcRawKwargs(i))
    IN  /\ k.pc = "start"
        /\ cc_req' = [cc_req EXCEPT ![i] = [k EXCEPT !.pc = "build", !.route_info = CcRoute,
                                                     !.call_kwargs = f.kwargs]]
        /\ UNCHANGED <<cc_heap, cc_sent>>
        /\ UNCHANGED <<httpVars, valVars, lifeVars, bhVars, ormVars>>

\* view = await route_info.view_cls._build(app, request): a new instance;
\* view._route_info = call_kwargs
CcBuild(i) ==
    LET k == cc_req[i]
    IN  /\ k.pc = "build"
        /\ \E fin \in BOOLEAN, pok \in BOOLEAN :
            LET v == [NewView(k.route_info.view_cls, k.scope.method, fin \/ pok, TRUE) EXCEPT
                        !.is_finished = fin,
                        !.response = IF fin THEN PrepareResponse ELSE NoResp,
                        !.route_info = k.call_kwargs]
            IN  /\ cc_heap' = Append(cc_heap, v)
                /\ cc_req' = [cc_req EXCEPT ![i] =
                                [k EXCEPT !.view = Len(cc_heap) + 1,
                                          !.pc = IF fin THEN "respond" ELSE "validate",
                                          !.resp = take_response(v, k.resp),
                                          !.produced = v.response]]
        /\ UNCHANGED cc_sent
        /\ UNCHANGED <<httpVars, valVars, lifeVars, bhVars, ormVars>>

\* view_validate_check up to its await of view.post_data(): the query step,
\* and for a method without body the rest
CcValidate(i) ==
    LET k == cc_req[i]
        ref == local_view(k, cc_heap)
        v == cc_heap[ref]
        bad == ~v.params_ok
        v1 == IF bad THEN ErrorCatchContext(v, "InvalidParams")
              ELSE [v EXCEPT !.validated_query =
                        Assign(v.validated_query, do_validate(k.route_info.va_query, "params:" \o Tag(i)))]
    IN  /\ k.pc = "validate"
        /\ cc_heap' = [cc_heap EXCEPT ![ref] = v1]
        /\ cc_req' = [cc_req EXCEPT ![i] =
                        [k EXCEPT !.pc = IF ~bad /\ k.scope.method \in POST_METHODS
                                         THEN "post_data" ELSE "after_validate",
                                  !.produced = IF bad THEN v1.response ELSE k.produced]]
        /\ UNCHANGED cc_sent
        /\ UNCHANGED <<httpVars, valVars, lifeVars, bhVars, ormVars>>

\* view_validate_check after its await of view.post_data(): the post step
CcPostData(i) ==
    LET k == cc_req[i]
        ref == local_view(k, cc_heap)
        v == cc_heap[ref]
    IN  /\ k.pc = "post_data"
        /\ \E ok_post \in BOOLEAN :
            LET v1 == IF ~ok_post THEN ErrorCatchContext(v, "InvalidPostData")
                      ELSE [v EXCEPT !.validated_post =
                                Assign(v.validated_post, do_validate(k.route_info.va_post, "post_data:" \o Tag(i)))]
            IN  /\ cc_heap' = [cc_heap EXCEPT ![ref] = v1]
                /\ cc_req' = [cc_req EXCEPT ![i] =
                                [k EXCEPT !.pc = "after_validate",
                                          !.produced = IF ~ok_post THEN v1.response ELSE k.produced]]
        /\ UNCHANGED cc_sent
        /\ UNCHANGED <<httpVars, valVars, lifeVars, bhVars, ormVars>>

\* after view_validate_check: the handler bound to the view, if the view is
\* still not finished, then "if view.response: resp = view.response"
CcHandler(i) ==
    LET k == cc_req[i]
        ref == local_view(k, cc_heap)
        v == cc_heap[ref]
    IN  /\ k.pc = "after_validate"
        /\ IF handler_runs(v)
           THEN \E out \in {NoResp, CcHandlerResponse(i)} :
                    LET v1 == [v EXCEPT !.response = out, !.is_finished = RespTruthy(out)]
                    IN  /\ cc_heap' = [cc_heap EXCEPT ![ref] = v1]
                        /\ cc_req' = [cc_req EXCEPT ![i] =
                                        [k EXCEPT !.pc = "respond",
                                                  !.handler_saw =
                                                      [called |-> TRUE, kwargs |-> k.call_kwargs,
                                                       route_info |-> v.route_info,
                                                       query |-> v.validated_query,
                                                       post |-> v.validated_post],
                                                  !.produced = out,
                                                  !.resp = take_response(v1, k.resp)]]
           ELSE /\ cc_req' = [cc_req EXCEPT ![i] =
                                [k EXCEPT !.pc = "respond", !.resp = take_response(v, k.resp)]]
                /\ UNCHANGED cc_heap
        /\ UNCHANGED cc_sent
        /\ UNCHANGED <<httpVars, valVars, lifeVars, bhVars, ormVars>>

\* if resp: body = await resp.get_body()
CcRespond(i) ==
    LET k == cc_req[i]
    IN  /\ k.pc = "respond"
        /\ cc_req' = [cc_req EXCEPT ![i] =
                        [k EXCEPT !.pc = "send_start",
                                  !.body = IF RespTruthy(k.resp) THEN get_body(k.resp) ELSE k.body]]
        /\ UNCHANGED <<cc_heap, cc_sent>>
        /\ UNCHANGED <<httpVars, valVars, lifeVars, bhVars, ormVars>>

\* the CORS merge, build_headers and the first send; without a response the
\* first send of the fallback
CcSendStart(i) ==
    LET k == cc_req[i]
        r == IF Len(cors_options) > 0
             THEN merge_cors(k.resp, cors_options, ASGIRequest_origin(k.scope))
             ELSE k.resp
    IN  /\ k.pc = "send_start"
        /\ IF RespTruthy(k.resp)
           THEN /\ cc_req' = [cc_req EXCEPT ![i] = [k EXCEPT !.pc = "send_body", !.resp = r]]
                /\ cc_sent' = [cc_sent EXCEPT ![i] = Append(@, StartEvent(r.status, build_headers(r)))]
           ELSE /\ cc_req' = [cc_req EXCEPT ![i] = [k EXCEPT !.pc = "send_body"]]
                /\ cc_sent' = [cc_sent EXCEPT ![i] = Append(@, fallback_start)]
        /\ UNCHANGED cc_heap
        /\ UNCHANGED <<httpVars, valVars, lifeVars, bhVars, ormVars>>

\* the second send, then return
CcSendBody(i) ==
    LET k == cc_req[i]
    IN  /\ k.pc = "send_body"
        /\ cc_req' = [cc_req EXCEPT ![i] = [k EXCEPT !.pc = "done"]]
        /\ cc_sent' = [cc_sent EXCEPT ![i] =
                        Append(@, IF RespTruthy(k.resp) THEN BodyEvent(k.body) ELSE fallback_body)]
        /\ UNCHANGED cc_heap
        /\ UNCHANGED <<httpVars, valVars, lifeVars, bhVars, ormVars>>

(***************************************************************************)
(* Initial states and specifications                                       *)
(***************************************************************************)
IdleHttp ==
    /\ cors_options = <<>>
    /\ scope = [type |-> "none", method |-> "", path |-> "", headers |-> <<>>]
    /\ route_info = NoRoute
    /\ call_kwargs_raw = <<>>
    /\ call_kwargs = <<>>
    /\ resp = NoResp
    /\ body = PyNone
    /\ sent = <<>>
    /\ handler_kwargs = <<>>
    /\ exc = "none"

IdleVal ==
    /\ va = [query |-> "none", post |-> "none", headers |-> "none", write_value |-> "none"]
    /\ write_values = <<>>
    /\ item_idx = 0
    /\ err = "none"

IdleLife ==
    /\ ls_pc = "idle"
    /\ ls_msg = "none"
    /\ ls_idx = 0
    /\ ls_sent = <<>>
    /\ ls_calls = <<>>
    /\ ls_recv = 0
    /\ ls_app = [on_startup |-> 0, on_shutdown |-> 0]

IdleBh ==
    /\ bh_pc = "idle"
    /\ bh_resp = NoResp
    /\ bh_out = <<>>

IdleOrm ==
    /\ db_rows = <<>>
    /\ db_log = <<>>
    /\ sql_err = NoErr
    /\ sql_ret = NotCalled
    /\ sql_op = NoOp
    /\ sql_n = 0

IdleConc ==
    /\ cc_req = <<>>
    /\ cc_heap = <<>>
    /\ cc_sent = <<>>

\* handle_request is entered with an http scope
Init ==
    /\ cors_options \in SeqsUpTo(PolicySet, MaxCors)
    /\ scope \in {[type |-> "http", method |-> m, path |-> p, headers |-> h] :
                    m \in Methods, p \in Paths, h \in ScopeHeaders}
    /\ pc = "start"
    /\ route_info = NoRoute
    /\ call_kwargs_raw = <<>>
    /\ call_kwargs = <<>>
    /\ view = NoView
    /\ resp = NoResp
    /\ body = PyNone
    /\ sent = <<>>
    /\ calls = <<>>
    /\ handler_kwargs = <<>>
    /\ exc = "none"
    /\ IdleVal
    /\ IdleLife
    /\ IdleBh
    /\ IdleOrm
    /\ IdleConc

Next ==
    \/ Preflight
    \/ QueryPath
    \/ BuildView
    \/ VQuery
    \/ VPostData
    \/ VWrite
    \/ VPost
    \/ VHeaders
    \/ CallHandler
    \/ Respond
    \/ SendStart
    \/ SendBody
    \/ Send404Start
    \/ Send404Body

Spec == Init /\ [][Next]_vars

(***************************************************************************)
(* handle_request, scope type lifespan                                     *)
(***************************************************************************)
MsgTypes == {"lifespan.startup", "lifespan.shutdown", "lifespan.other"}

\* the callback a "for func in app.on_startup / app.on_shutdown" loop calls at
\* position i of n, faulty variant: the list is walked backwards
hook_at_reversed(i, n) == n - i + 1

\* the callback a "for func in app.on_startup / app.on_shutdown" loop calls at
\* position i of n: the i-th registered
hook_at(i, n) == i

\* faulty variant of after_startup_failed: the loop goes on
after_startup_failed_continue == "receive"

\* after send(lifespan.startup.failed): return
after_startup_failed == "returned"

\* faulty variant of after_shutdown_complete: the loop goes on
after_shutdown_complete_continue == "receive"

\* after send(lifespan.shutdown.complete): return
after_shutdown_complete == "returned"

\* message = await receive()
LsReceive ==
    /\ ls_pc = "receive"
    /\ ls_recv < MaxMsgs
    /\ \E m \in MsgTypes :
        /\ ls_msg' = m
        /\ ls_calls' = Append(ls_calls, "recv:" \o m)
        /\ ls_pc' = CASE m = "lifespan.startup" -> "prepare"
                      [] m = "lifespan.shutdown" ->
                            IF ls_app.on_shutdown = 0 THEN "send_shutdown_complete" ELSE "shutdown_cb"
                      [] OTHER -> "receive"
    /\ ls_recv' = ls_recv + 1
    /\ ls_idx' = 1
    /\ UNCHANGED <<ls_sent, ls_app>>
    /\ UNCHANGED <<httpVars, valVars, bhVars, ormVars, ccVars>>

\* app.prepare(), inside the try
LsPrepare ==
    /\ ls_pc = "prepare"
    /\ \E raises \in BOOLEAN :
        IF raises
        THEN /\ ls_calls' = ls_calls \o <<"prepare", "raised">>
             /\ ls_pc' = "send_failed"
        ELSE /\ ls_calls' = Append(ls_calls, "prepare")
             /\ ls_pc' = IF ls_app.on_startup = 0 THEN "send_complete" ELSE "startup_cb"
    /\ UNCHANGED <<ls_msg, ls_idx, ls_sent, ls_recv, ls_app>>
    /\ UNCHANGED <<httpVars, valVars, bhVars, ormVars, ccVars>>

\* for func in app.on_startup: await async_call(func), inside the try
LsStartupCb ==
    /\ ls_pc = "startup_cb"
    /\ ls_idx <= ls_app.on_startup
    /\ \E raises \in BOOLEAN :
        LET call == "on_startup:" \o ToString(hook_at(ls_idx, ls_app.on_startup))
        IN  IF raises
            THEN /\ ls_calls' = ls_calls \o <<call, "raised">>
                 /\ ls_pc' = "send_failed"
                 /\ UNCHANGED ls_idx
            ELSE /\ ls_calls' = Append(ls_calls, call)
                 /\ ls_idx' = ls_idx + 1
                 /\ ls_pc' = IF ls_idx = ls_app.on_startup THEN "send_complete" ELSE "startup_cb"
    /\ UNCHANGED <<ls_msg, ls_sent, ls_recv, ls_app>>
    /\ UNCHANGED <<httpVars, valVars, bhVars, ormVars, ccVars>>

\* await send({'type': 'lifespan.startup.complete'}), then the loop goes on
LsSendComplete ==
    /\ ls_pc = "send_complete"
    /\ ls_sent' = Append(ls_sent, "lifespan.startup.complete")
    /\ ls_calls' = Append(ls_calls, "send:lifespan.startup.complete")
    /\ ls_pc' = "receive"
    /\ UNCHANGED <<ls_msg, ls_idx, ls_recv, ls_app>>
    /\ UNCHANGED <<httpVars, valVars, bhVars, ormVars, ccVars>>

\* except Exception: await send({'type': 'lifespan.startup.failed'}); return
LsSendFailed ==
    /\ ls_pc = "send_failed"
    /\ ls_sent' = Append(ls_sent, "lifespan.startup.failed")
    /\ ls_calls' = Append(ls_calls, "send:lifespan.startup.failed")
    /\ ls_pc' = after_startup_failed
    /\ UNCHANGED <<ls_msg, ls_idx, ls_recv, ls_app>>
    /\ UNCHANGED <<httpVars, valVars, bhVars, ormVars, ccVars>>

\* for func in app.on_shutdown: await async_call(func), outside any try
LsShutdownCb ==
    /\ ls_pc = "shutdown_cb"
    /\ ls_idx <= ls_app.on_shutdown
    /\ \E raises \in BOOLEAN :
        LET call == "on_shutdown:" \o ToString(hook_at(ls_idx, ls_app.on_shutdown))
        IN  IF raises
            THEN /\ ls_calls' = ls_calls \o <<call, "raised">>
                 /\ ls_pc' = "raised"
                 /\ UNCHANGED ls_idx
            ELSE /\ ls_calls' = Append(ls_calls, call)
                 /\ ls_idx' = ls_idx + 1
                 /\ ls_pc' = IF ls_idx = ls_app.on_shutdown THEN "send_shutdown_complete" ELSE "shutdown_cb"
    /\ UNCHANGED <<ls_msg, ls_sent, ls_recv, ls_app>>
    /\ UNCHANGED <<httpVars, valVars, bhVars, ormVars, ccVars>>

\* await send({'type': 'lifespan.shutdown.complete'}); return
LsSendShutdownComplete ==
    /\ ls_pc = "send_shutdown_complete"
    /\ ls_sent' = Append(ls_sent, "lifespan.shutdown.complete")
    /\ ls_calls' = Append(ls_calls, "send:lifespan.shutdown.complete")
    /\ ls_pc' = after_shutdown_complete
    /\ UNCHANGED <<ls_msg, ls_idx, ls_recv, ls_app>>
    /\ UNCHANGED <<httpVars, valVars, bhVars, ormVars, ccVars>>

\* handle_request is entered with a lifespan scope
InitLife ==
    /\ ls_pc = "receive"
    /\ ls_msg = "none"
    /\ ls_idx = 0
    /\ ls_sent = <<>>
    /\ ls_calls = <<>>
    /\ ls_recv = 0
    /\ ls_app \in [on_startup : 0..MaxHooks, on_shutdown : 0..MaxHooks]
    /\ IdleHttp
    /\ pc = "idle"
    /\ view = NoView
    /\ calls = <<>>
    /\ IdleVal
    /\ IdleBh
    /\ IdleOrm
    /\ IdleConc

NextLife ==
    \/ LsReceive
    \/ LsPrepare
    \/ LsStartupCb
    \/ LsSendComplete
    \/ LsSendFailed
    \/ LsShutdownCb
    \/ LsSendShutdownComplete

SpecLife == InitLife /\ [][NextLife]_vars

(***************************************************************************)
(* A direct call of view_validate_check                                    *)
(***************************************************************************)
Schemas ==
    [query : {"none", "Q"}, post : {"none", "P"}, headers : {"none", "H"}, write_value : {"none", "W"}]

\* view_validate_check is entered with an unfinished view
InitValidate ==
    /\ va \in Schemas
    /\ \E cls \in {<<"BaseView", "none">>, <<"AbstractSQLView", "BULK_INSERT">>,
                   <<"AbstractSQLView", "SET">>, <<"AbstractSQLView", "NEW">>,
                   <<"AbstractSQLView", "GET">>},
          m \in {"GET", "POST"},
          pok \in IF va.query = "none" THEN {TRUE} ELSE BOOLEAN,
          hok \in IF va.headers = "none" THEN {TRUE} ELSE BOOLEAN :
        view = [NewView(cls[1], m, pok, hok) EXCEPT !.current_interface = cls[2]]
    /\ pc = "v_query"
    /\ calls = <<>>
    /\ write_values = <<>>
    /\ item_idx = 0
    /\ err = "none"
    /\ IdleHttp
    /\ IdleLife
    /\ IdleBh
    /\ IdleOrm
    /\ IdleConc

NextValidate ==
    \/ VQuery
    \/ VPostData
    \/ VWrite
    \/ VItems
    \/ VPost
    \/ VHeaders

SpecValidate == InitValidate /\ [][NextValidate]_vars

(***************************************************************************)
(* A call of Response.build_headers                                        *)
(***************************************************************************)
OptAttrs == {"expires", "max-age", "domain", "path", "secure", "httponly"}
CookieKeyOrder == <<"name", "value", "expires", "max-age", "domain", "path", "secure", "httponly">>
CookieNames == <<"sid", "tok", "uid", "ref">>

\* the attribute sets cookie entries are drawn with: none, one, two or all
AttrSets == {S \in SUBSET OptAttrs : Cardinality(S) \in {0, 1, 2, Cardinality(OptAttrs)}}

Reverse(s) == [i \in 1..Len(s) |-> s[Len(s) - i + 1]]

CookieAttrValue(k, name, flag) ==
    CASE k = "name" -> PyStr(name)
      [] k = "value" -> PyStr("abc")
      [] k = "expires" -> PyStr("X")
      [] k = "max-age" -> PyInt(60)
      [] k = "domain" -> PyStr("d")
      [] k = "path" -> PyStr("/")
      [] OTHER -> PyBool(flag)

\* a cookie entry: a dict with name, value and the attributes in S, its keys
\* in the listed order or in the opposite one, its flags set to flag
CookieEntry(S, name, rev, flag) ==
    LET keys == SelectSeq(IF rev THEN Reverse(CookieKeyOrder) ELSE CookieKeyOrder,
                          LAMBDA k : k \in {"name", "value"} \cup S)
    IN  [i \in 1..Len(keys) |-> <<keys[i], CookieAttrValue(keys[i], name, flag)>>]

CookieJars ==
    {NoDict} \cup
    { SomeDict([i \in 1..Len(sets) |-> <<CookieNames[i], CookieEntry(sets[i], CookieNames[i], rev, flag)>>]) :
        sets \in SeqsUpTo(AttrSets, MaxCookies), rev \in BOOLEAN, flag \in BOOLEAN }

ExplicitHeaders ==
    { NoDict,
      SomeDict(<< <<"X-Count", PyInt(3)>>, <<"X-Bin", PyBytes("b")>>, <<"X-Name", PyStr("n")>> >>) }

\* build_headers is about to be called on a response
InitHeaders ==
    /\ bh_pc = "call"
    /\ bh_resp \in { Response(200, PyNone, h, ct, c) :
                        h \in ExplicitHeaders, ct \in {"text/plain", "application/json"}, c \in CookieJars }
    /\ bh_out = <<>>
    /\ IdleHttp
    /\ pc = "idle"
    /\ view = NoView
    /\ calls = <<>>
    /\ IdleVal
    /\ IdleLife
    /\ IdleOrm
    /\ IdleConc

\* headers = resp.build_headers()
BuildHeaders ==
    /\ bh_pc = "call"
    /\ bh_out' = build_headers(bh_resp)
    /\ bh_pc' = "done"
    /\ UNCHANGED bh_resp
    /\ UNCHANGED <<httpVars, valVars, lifeVars, ormVars, ccVars>>

NextHeaders == BuildHeaders

SpecHeaders == InitHeaders /\ [][NextHeaders]_vars

(***************************************************************************)
(* Calls of the PeeweeSQLFunctions operations, each on the instance of a   *)
(* fresh view (PeeweeView.__init__), against one table                     *)
(***************************************************************************)
\* the table is empty, as in the test, or holds a row already
InitOrm ==
    /\ db_rows \in {<<>>, <<Row(1, "Alice", TRUE, "ab")>>}
    /\ db_log = <<>>
    /\ sql_err = NoErr
    /\ sql_ret = NotCalled
    /\ sql_op = NoOp
    /\ sql_n = 0
    /\ IdleHttp
    /\ pc = "idle"
    /\ view = NoView
    /\ calls = <<>>
    /\ IdleVal
    /\ IdleLife
    /\ IdleBh
    /\ IdleConc

NextOrm ==
    \/ SqlSelectOne
    \/ SqlSelectPaginationList
    \/ SqlUpdate
    \/ SqlInsert

SpecOrm == InitOrm /\ [][NextOrm]_vars

(***************************************************************************)
(* Concurrent calls of handle_request on one application                   *)
(***************************************************************************)
\* the first request is a GET or a POST, the others are POSTs, whose
\* validation has one more await
InitConc ==
    /\ cc_req \in {[i \in Reqs |-> CcLocals(i, IF i = 1 THEN m ELSE "POST")] : m \in {"GET", "POST"}}
    /\ cc_heap = <<>>
    /\ cc_sent = [i \in Reqs |-> <<>>]
    /\ cors_options = <<CORSOptions("*", TRUE, PyNone, PyStr("X-C"), PyNone, PyNone)>>
    /\ scope = [type |-> "none", method |-> "", path |-> "", headers |-> <<>>]
    /\ route_info = NoRoute
    /\ call_kwargs_raw = <<>>
    /\ call_kwargs = <<>>
    /\ resp = NoResp
    /\ body = PyNone
    /\ sent = <<>>
    /\ handler_kwargs = <<>>
    /\ exc = "none"
    /\ pc = "idle"
    /\ view = NoView
    /\ calls = <<>>
    /\ IdleVal
    /\ IdleLife
    /\ IdleBh
    /\ IdleOrm

NextConc ==
    \/ \E i \in Reqs : CcQueryPath(i)
    \/ \E i \in Reqs : CcBuild(i)
    \/ \E i \in Reqs : CcValidate(i)
    \/ \E i \in Reqs : CcPostData(i)
    \/ \E i \in Reqs : CcHandler(i)
    \/ \E i \in Reqs : CcRespond(i)
    \/ \E i \in Reqs : CcSendStart(i)
    \/ \E i \in Reqs : CcSendBody(i)

SpecConc == InitConc /\ [][NextConc]_vars

(***************************************************************************)
(* Properties                                                              *)
(***************************************************************************)
Range(s) == {s[i] : i \in 1..Len(s)}
IsPrefix(p, s) == Len(p) <= Len(s) /\ SubSeq(s, 1, Len(p)) = p
FallbackEvents == <<fallback_start, fallback_body>>

\* C1: on every path on which handle_request returns (handler-produced
\* response, CORS preflight, 404 fallback) exactly one http.response.start and
\* exactly one http.response.body are sent, the start before the body; at no
\* time has anything else, or a body without its start, been sent.
C1_StartThenBodyOnce ==
    /\ Len(sent) <= 2
    /\ Len(sent) >= 1 => sent[1].type = "http.response.start"
    /\ Len(sent) = 2 => sent[2].type = "http.response.body"
    /\ pc = "done" => Len(sent) = 2

\* a request answered with the response its handler produced
C1_Witness ==
    /\ pc = "done"
    /\ "handler" \in Range(calls)
    /\ RespTruthy(view.response)
    /\ resp.status = view.response.status
    /\ Len(cors_options) = 2

\* C2: a non-OPTIONS request whose (method, path) resolves to no route is
\* answered with exactly status 404, the single header content-type:
\* text/plain and the body "not found", with or without CORS policies; no
\* view is built, nothing is validated and no handler runs.
C2_UnmatchedRouteIs404 ==
    (pc # "start" /\ scope.method # "OPTIONS" /\ ~route_info.found) =>
        /\ calls = <<"query_path">>
        /\ ~view.built
        /\ handler_kwargs = <<>>
        /\ IsPrefix(sent, FallbackEvents)
        /\ pc = "done" =>
            /\ Len(sent) = 2
            /\ sent[1].status = 404
            /\ sent[1].headers = << <<PyBytes("content-type"), PyBytes("text/plain")>> >>
            /\ sent[2].body = PyBytes("not found")

\* an unmatched GET answered while CORS policies are configured
C2_Witness ==
    /\ pc = "done"
    /\ scope.method = "GET"
    /\ calls = <<"query_path">>
    /\ ~route_info.found
    /\ Len(cors_options) > 0
    /\ Len(sent) = 2

\* the CORS header names a policy list can produce: the two that are always
\* set and the optional ones some policy configures
CorsNames(opts) ==
    {ACCESS_CONTROL_ALLOW_ORIGIN, ACCESS_CONTROL_ALLOW_CREDENTIALS}
    \cup {ACCESS_CONTROL_EXPOSE_HEADERS : i \in {j \in 1..Len(opts) : Truthy(opts[j].expose_headers)}}
    \cup {ACCESS_CONTROL_ALLOW_HEADERS : i \in {j \in 1..Len(opts) : Truthy(opts[j].allow_headers)}}
    \cup {ACCESS_CONTROL_MAX_AGE : i \in {j \in 1..Len(opts) : Truthy(opts[j].max_age)}}
    \cup {ACCESS_CONTROL_ALLOW_METHODS : i \in {j \in 1..Len(opts) : Truthy(opts[j].allow_methods)}}

IsPreflight == scope.method = "OPTIONS" /\ Len(cors_options) > 0

\* C3 as stated: an OPTIONS request with CORS policies configured resolves no
\* route, runs no handler, is answered 200, and every header of its start
\* event is a CORS header.
C3_OnlyCorsHeaders ==
    (IsPreflight /\ Len(sent) >= 1) =>
        /\ calls = <<>>
        /\ sent[1].status = 200
        /\ \A i \in 1..Len(sent[1].headers) :
            sent[1].headers[i][1].v \in CorsNames(cors_options)

\* C3 as amended: an OPTIONS request with CORS policies configured resolves no
\* route, builds no view, runs no handler and is answered 200; its start event
\* carries the content-type header (text/plain) first and after it CORS
\* headers only: allow-origin and allow-credentials always, each optional one
\* exactly when some policy configures it, none twice.
C3_ContentTypeThenCorsHeaders ==
    (IsPreflight /\ pc # "start") =>
        /\ calls = <<>>
        /\ ~view.built
        /\ handler_kwargs = <<>>
        /\ Len(sent) >= 1 =>
            LET hs == sent[1].headers
            IN  /\ sent[1].status = 200
                /\ hs[1] = <<PyBytes(CONTENT_TYPE), PyBytes("text/plain")>>
                /\ {hs[i][1] : i \in 2..Len(hs)} = {PyBytes(n) : n \in CorsNames(cors_options)}
                /\ Len(hs) = 1 + Cardinality(CorsNames(cors_options))

\* a preflight answered under two policies, one of which sets optional headers
C3_Witness ==
    /\ IsPreflight
    /\ pc = "done"
    /\ Len(cors_options) = 2
    /\ Len(sent[1].headers) > 3

\* the names the route declares for its handler
DeclaredNames(ri) ==
    ri.names_include \ (IF ri.names_varkw # PyNone THEN ri.names_exclude ELSE {})

\* C4 as stated: the handler is invoked with exactly the route's include set
\* minus, for a variable-keyword route, its exclude set.
C4_KwargsAreDeclaredSet ==
    \A i \in 1..Len(handler_kwargs) :
        DOMAIN handler_kwargs[i] = DeclaredNames(route_info)

\* C4 as amended: the handler is invoked with exactly those extracted
\* arguments whose names are in the include set minus, for a variable-keyword
\* route, the exclude set, each with its extracted value; no argument outside
\* that set is passed, and a declared name that was not extracted is not passed.
C4_KwargsAreExtractedDeclared ==
    \A i \in 1..Len(handler_kwargs) :
        /\ DOMAIN handler_kwargs[i] = (DOMAIN call_kwargs_raw) \cap DeclaredNames(route_info)
        /\ DOMAIN handler_kwargs[i] \subseteq DeclaredNames(route_info)
        /\ \A k \in DOMAIN handler_kwargs[i] : handler_kwargs[i][k] = call_kwargs_raw[k]

\* a handler invoked after the filter dropped an excluded name
C4_Witness ==
    /\ Len(handler_kwargs) = 1
    /\ route_info.names_varkw # PyNone
    /\ route_info.names_exclude = {"page"}
    /\ route_info.names_include = {"id", "page"}
    /\ DOMAIN call_kwargs_raw = {"id", "page"}
    /\ DOMAIN handler_kwargs[1] = {"id"}

\* C5: a matched route whose processing ends with no response on the view is
\* answered with the fallback: a start event with status 404 and content-type
\* text/plain, then a body event "not found".
C5_NoResponseIs404 ==
    (pc = "done" /\ route_info.found /\ ~RespTruthy(view.response)) =>
        /\ view.built
        /\ sent = FallbackEvents
        /\ sent[1].type = "http.response.start"
        /\ sent[1].status = 404
        /\ sent[1].headers = << <<PyBytes("content-type"), PyBytes("text/plain")>> >>
        /\ sent[2].type = "http.response.body"
        /\ sent[2].body = PyBytes("not found")

\* a handler that ran and left no response, answered with the fallback
C5_Witness ==
    /\ pc = "done"
    /\ route_info.found
    /\ "handler" \in Range(calls)
    /\ ~RespTruthy(view.response)
    /\ Len(cors_options) > 0
    /\ Len(sent) = 2

\* the step of view_validate_check that validates a bulk insert has bad data:
\* items is no list or tuple, or one of its elements is not valid
BulkInsertBad ==
    /\ va.write_value # "none"
    /\ view.cls = "AbstractSQLView"
    /\ view.current_interface = "BULK_INSERT"
    /\ view.method \in POST_METHODS
    /\ view.post_data.read
    /\ \/ view.post_data.items.t \notin {"list", "tuple"}
       \/ \E i \in 1..Len(view.post_data.elems) : ~view.post_data.elems[i]

\* C6: for a bulk insert on a SQL-backed view with a write-value schema, when
\* items is no list or tuple or any element of it fails validation, the step
\* fails with InvalidPostData and validated_write_values is never assigned:
\* the elements validated before the failure are not left on the view.
C6_NoPartialWriteValues ==
    BulkInsertBad =>
        /\ ~view.validated_write_values.set
        /\ pc \notin {"v_post", "v_headers"}
        /\ pc = "v_done" =>
            /\ err = "InvalidPostData"
            /\ ~view.validated_post.set
            /\ ~view.validated_headers.set

\* a bulk insert that failed on its second element, the first being valid
C6_Witness ==
    /\ BulkInsertBad
    /\ pc = "v_done"
    /\ view.post_data.elems = <<TRUE, FALSE>>
    /\ Len(write_values) = 1
    /\ err = "InvalidPostData"

\* the positions of ls_calls at which a message was received
RecvAt == {i \in 1..Len(ls_calls) : ls_calls[i] \in {"recv:" \o m : m \in MsgTypes}}
\* what was called and sent for the message received at position i
Handling(i) ==
    LET later == {j \in RecvAt : j > i}
        last == IF later = {} THEN Len(ls_calls)
                ELSE (CHOOSE j \in later : \A k \in later : j <= k) - 1
    IN  SubSeq(ls_calls, i + 1, last)
\* the handling of the message received at position i is over
HandlingOver(i) ==
    \/ \E j \in RecvAt : j > i
    \/ ls_pc \in {"receive", "returned", "raised"}

StartupHooks == <<"prepare">> \o [k \in 1..ls_app.on_startup |-> "on_startup:" \o ToString(k)]
ShutdownHooks == [k \in 1..ls_app.on_shutdown |-> "on_shutdown:" \o ToString(k)]

\* C7: for each lifespan.startup message prepare is called first, then the
\* startup callbacks in registration order, and lifespan.startup.complete is
\* sent only after all of them; when prepare or a callback raises no later
\* callback is called; exactly one of complete and failed is sent per message.
C7_StartupOrder ==
    \A i \in RecvAt :
        ls_calls[i] = "recv:lifespan.startup" =>
            LET h == Handling(i)
                completed == StartupHooks \o <<"send:lifespan.startup.complete">>
                failed(p) == p \o <<"raised", "send:lifespan.startup.failed">>
            IN  /\ \/ IsPrefix(h, completed)
                   \/ \E n \in 1..Len(StartupHooks) :
                        IsPrefix(h, failed(SubSeq(StartupHooks, 1, n))) /\ Len(h) > n
                /\ HandlingOver(i) =>
                    \/ h = completed
                    \/ \E n \in 1..Len(StartupHooks) : h = failed(SubSeq(StartupHooks, 1, n))

\* a startup that completed after both callbacks, then one that failed
C7_Witness ==
    /\ ls_app.on_startup = 2
    /\ ls_sent = <<"lifespan.startup.complete", "lifespan.startup.failed">>
    /\ ls_calls[Len(ls_calls) - 2] = "on_startup:2"

StartupFailed == "lifespan.startup.failed" \in Range(ls_sent)

\* C8: once lifespan.startup.failed has been sent the loop has halted: no
\* message is received, no hook is called and nothing is sent afterwards.
C8_FailedStartupHalts ==
    [][StartupFailed => UNCHANGED lifeVars]_vars

\* a failed startup with messages still to come
C8_Witness ==
    /\ StartupFailed
    /\ ls_pc = "returned"
    /\ ls_recv < MaxMsgs

\* C9: for a lifespan.shutdown message the shutdown callbacks are called in
\* registration order, then lifespan.shutdown.complete is sent, once, and the
\* loop ends without another receive; when a callback raises, the exception
\* leaves the loop: no later callback is called and no completion is sent.
C9_ShutdownOrder ==
    \A i \in RecvAt :
        ls_calls[i] = "recv:lifespan.shutdown" =>
            LET h == Handling(i)
                completed == ShutdownHooks \o <<"send:lifespan.shutdown.complete">>
            IN  /\ \A j \in RecvAt : j <= i
                /\ \/ IsPrefix(h, completed)
                   \/ \E n \in 1..Len(ShutdownHooks) :
                        h = SubSeq(ShutdownHooks, 1, n) \o <<"raised">>
                /\ "raised" \in Range(h) =>
                    /\ ls_pc = "raised"
                    /\ "lifespan.shutdown.complete" \notin Range(ls_sent)
                /\ ls_pc = "returned" =>
                    /\ h = completed
                    /\ Cardinality({k \in 1..Len(ls_sent) : ls_sent[k] = "lifespan.shutdown.complete"}) = 1

\* a shutdown that completed after both callbacks, with messages still to come
C9_Witness ==
    /\ ls_app.on_shutdown = 2
    /\ ls_pc = "returned"
    /\ ls_recv < MaxMsgs
    /\ "lifespan.shutdown.complete" \in Range(ls_sent)

\* the attributes of a Set-Cookie value in their order, each with its label
\* and whether it is a flag
CookieAttrs ==
    << [key |-> "expires", label |-> "Expires", flag |-> FALSE],
       [key |-> "max-age", label |-> "Max-Age", flag |-> FALSE],
       [key |-> "domain", label |-> "Domain", flag |-> FALSE],
       [key |-> "path", label |-> "Path", flag |-> FALSE],
       [key |-> "secure", label |-> "Secure", flag |-> TRUE],
       [key |-> "httponly", label |-> "HttpOnly", flag |-> TRUE] >>

RECURSIVE RenderAttrs(_, _)
\* the text the attributes from position i on add for cookie entry e
RenderAttrs(e, i) ==
    IF i > Len(CookieAttrs) THEN ""
    ELSE LET a == CookieAttrs[i]
             here == IF ~DictHas(e, a.key) THEN ""
                     ELSE IF a.flag
                          THEN (IF DictGet(e, a.key) = PyBool(TRUE) THEN "; " \o a.label ELSE "")
                          ELSE "; " \o a.label \o "=" \o DictGet(e, a.key).v
         IN  here \o RenderAttrs(e, i + 1)

\* C10: build_headers returns the content-type header first, then one
\* Set-Cookie header per cookie entry in the order of the mapping, then the
\* explicit headers in their order, all as bytes; a Set-Cookie value is
\* name=value followed by Expires, Max-Age, Domain, Path, Secure, HttpOnly in
\* that order, each only when the entry has it (the flags only when true),
\* whatever the order of the entry's keys.
C10_HeaderOrder ==
    bh_pc = "done" =>
        LET cs == IF bh_resp.cookies.none THEN <<>> ELSE bh_resp.cookies.kv
            hs == IF bh_resp.headers.none THEN <<>> ELSE bh_resp.headers.kv
        IN  /\ Len(bh_out) = 1 + Len(cs) + Len(hs)
            /\ bh_out[1] = <<PyBytes(CONTENT_TYPE), PyBytes(bh_resp.content_type)>>
            /\ \A i \in 1..Len(cs) :
                LET e == cs[i][2]
                IN  bh_out[1 + i] =
                        <<PyBytes(SET_COOKIE),
                          PyBytes(DictGet(e, "name").v \o "=" \o DictGet(e, "value").v \o RenderAttrs(e, 1))>>
            /\ \A j \in 1..Len(hs) :
                bh_out[1 + Len(cs) + j] = <<PyBytes(hs[j][1]), PyBytes(hs[j][2].v)>>

\* the example of the specification, its keys in the opposite order, as the
\* first of two cookies and before explicit headers
C10_Witness ==
    /\ bh_pc = "done"
    /\ Len(bh_out) = 6
    /\ bh_resp.cookies.kv[1][2][1][1] = "httponly"
    /\ bh_out[2][2] = PyBytes("sid=abc; Expires=X; Max-Age=60; Domain=d; Path=/; Secure; HttpOnly")
    /\ bh_out[3][1] = PyBytes(SET_COOKIE)
    /\ bh_out[4] = <<PyBytes("X-Count"), PyBytes("3")>>

\* the current operation is a mutation whose statement raised
\* peewee.DatabaseError inside the "with db.atomic()" block
DbErrorInTransaction ==
    /\ sql_op.name \in {"update", "insert"}
    /\ "DatabaseError" \in Range(db_log)

\* C11: a mutation (update, insert) that hits a database error inside its
\* transaction is rolled back, leaving the table as it was, and returns the
\* generic failure code: it does not return success and it does not end
\* without a result code.
C11_DbErrorReportsFailure ==
    DbErrorInTransaction =>
        /\ db_log[Len(db_log)] = "rollback"
        /\ db_rows = sql_op.rows_before
        /\ sql_ret.kind = "return"
        /\ sql_ret.pair
        /\ sql_ret.code = RETCODE_FAILED

\* the rows of the table that match the filter of the current operation
Matching == {db_rows[k] : k \in Selected(_make_select(NoErr, sql_op.info).q, db_rows)}

\* C12: select_one with a filter whose values convert returns NOT_FOUND and no
\* record when no row matches, and SUCCESS with one of the matching rows when
\* at least one matches; on an empty table it returns NOT_FOUND, on a table
\* with a row and no filter it returns SUCCESS; the table is left as it was.
C12_SelectOneFoundOrNot ==
    (sql_op.name = "select_one" /\ ~sql_err.set) =>
        /\ sql_ret.kind = "return"
        /\ sql_ret.pair
        /\ Matching = {} =>
            /\ sql_ret.code = RETCODE_NOT_FOUND
            /\ sql_ret.value = NoneValue
        /\ Matching # {} =>
            /\ sql_ret.code = RETCODE_SUCCESS
            /\ sql_ret.value.t = "PeeweeAbilityRecord"
            /\ sql_ret.value.row \in Matching
        /\ db_rows = <<>> => sql_ret.code = RETCODE_NOT_FOUND
        /\ (db_rows # <<>> /\ sql_op.info.args = <<>>) => sql_ret.code = RETCODE_SUCCESS
        /\ db_rows = sql_op.rows_before

\* a select_one without filter on a table a row was inserted into
C12_Witness ==
    /\ sql_op.name = "select_one"
    /\ sql_op.info.args = <<>>
    /\ Len(db_rows) = 2
    /\ sql_ret.code = RETCODE_SUCCESS
    /\ sql_ret.value.row = db_rows[1]

\* a select_one whose filter matches no row of a table that has rows
C12_WitnessNotFound ==
    /\ sql_op.name = "select_one"
    /\ Len(sql_op.info.args) = 1
    /\ ~sql_err.set
    /\ Len(db_rows) > 0
    /\ sql_ret.code = RETCODE_NOT_FOUND

\* the start event request i is answered with when its processing left response r
CcStartFor(i, r) ==
    IF RespTruthy(r)
    THEN LET m == IF Len(cors_options) > 0
                  THEN merge_cors(r, cors_options, ASGIRequest_origin(cc_req[i].scope))
                  ELSE r
         IN  StartEvent(m.status, build_headers(m))
    ELSE fallback_start

\* the validated_* field f holds nothing, or what was validated for request i
CcOwn(f, what, i) == f.set => (f.n = 1 /\ f.val[2] = what \o ":" \o Tag(i))

\* C13: of requests processed concurrently each has a view instance of its
\* own; the validated_* fields, the filtered keyword arguments and the response
\* on the view of a request are those of that request, its handler reads those
\* of that request, and the events sent for a request are those of the
\* response its own processing left (or the fallback when it left none).
C13_RequestsAreIsolated ==
    \A i \in Reqs :
        LET k == cc_req[i]
        IN  /\ k.view # 0 =>
                /\ \A j \in Reqs \ {i} : cc_req[j].view # k.view
                /\ LET v == cc_heap[k.view]
                   IN  /\ v.route_info = k.call_kwargs
                       /\ \A n \in DOMAIN v.route_info : v.route_info[n] = PyStr(Tag(i))
                       /\ CcOwn(v.validated_query, "params", i)
                       /\ CcOwn(v.validated_post, "post_data", i)
                       /\ v.response = k.produced
                       /\ v.response \in {NoResp, PrepareResponse, CcHandlerResponse(i),
                                          ErrorResponse("InvalidParams"), ErrorResponse("InvalidPostData")}
            /\ k.handler_saw.called =>
                /\ k.handler_saw.kwargs = [n \in {"id"} |-> PyStr(Tag(i))]
                /\ k.handler_saw.route_info = k.handler_saw.kwargs
                /\ k.handler_saw.query.set
                /\ CcOwn(k.handler_saw.query, "params", i)
                /\ CcOwn(k.handler_saw.post, "post_data", i)
            /\ Len(cc_sent[i]) <= 2
            /\ Len(cc_sent[i]) >= 1 => cc_sent[i][1] = CcStartFor(i, k.produced)
            /\ Len(cc_sent[i]) = 2 =>
                cc_sent[i][2] = IF RespTruthy(k.produced) THEN BodyEvent(get_body(k.produced))
                                ELSE fallback_body
            /\ k.pc = "done" => Len(cc_sent[i]) = 2

\* two requests in flight: the first, whose view was built after the view of
\* the second, has sent the start event of its own handler's response while
\* the second, validated, has not yet run its handler
C13_Witness ==
    /\ cc_req[1].view = 2
    /\ cc_req[2].view = 1
    /\ cc_req[1].pc = "send_body"
    /\ cc_req[2].pc = "after_validate"
    /\ cc_heap[1].validated_post.set
    /\ cc_heap[2].validated_post.set
    /\ cc_req[1].produced = CcHandlerResponse(1)
    /\ \E h \in 1..Len(cc_sent[1][1].headers) :
            cc_sent[1][1].headers[h] = <<PyBytes("X-Request"), PyBytes("r1")>>
    /\ cc_sent[2] = <<>>

\* the calls a step adds to calls
NewCalls == {calls'[n] : n \in (Len(calls) + 1)..Len(calls')}
ValidationCalls ==
    {"do_validate:query", "post_data", "do_validate:write_value", "do_validate:post", "do_validate:headers"}

\* C14: view_validate_check is entered only with the view that construction
\* left unfinished; the handler is invoked only on a view that is unfinished
\* after validation, which was entered and raised nothing, and only if it was
\* not invoked before; once the view is finished, by the pre-check, by
\* validation or by the handler, no validation step and no handler runs.
C14_ValidateAndHandleOnce ==
    [][ /\ "view_validate_check" \in NewCalls => (view'.built /\ ~view'.is_finished)
        /\ NewCalls \cap ValidationCalls # {} =>
            /\ ~view.is_finished
            /\ "view_validate_check" \in Range(calls)
        /\ "handler" \in NewCalls =>
            /\ ~view.is_finished
            /\ err = "none"
            /\ "view_validate_check" \in Range(calls)
            /\ "handler" \notin Range(calls)
            /\ handler_kwargs = <<>>
            /\ Len(handler_kwargs') = 1
        /\ (view.built /\ view.is_finished) => (calls' = calls /\ handler_kwargs' = handler_kwargs)
      ]_vars

\* a request answered after validation finished its view: no handler ran
C14_Witness ==
    /\ pc = "done"
    /\ err = "InvalidParams"
    /\ view.is_finished
    /\ "view_validate_check" \in Range(calls)
    /\ "handler" \notin Range(calls)
    /\ handler_kwargs = <<>>

\* C15 as stated: the filter is a two-way branch; for a variable-keyword route
\* only the keys of the exclusion set are removed and every other extracted
\* key is passed to the handler, for the other routes every key outside the
\* inclusion set is removed.
C15_VarkwKeepsOtherKeys ==
    \A i \in 1..Len(handler_kwargs) :
        DOMAIN handler_kwargs[i] =
            IF route_info.names_varkw # PyNone
            THEN (DOMAIN call_kwargs_raw) \ route_info.names_exclude
            ELSE (DOMAIN call_kwargs_raw) \cap route_info.names_include

\* C15 as amended: the filter is two steps in a row; for a variable-keyword
\* route the keys of the exclusion set are removed, and then, for every route,
\* every key outside the inclusion set is removed.  The copy the view is built
\* with and the handler is invoked with holds the extracted keys that are in
\* the inclusion set and, for a variable-keyword route only, not in the
\* exclusion set, each with its extracted value.
C15_ExcludeThenInclude ==
    (route_info.found /\ pc \notin {"start", "raised"}) =>
        LET kept == IF route_info.names_varkw # PyNone
                    THEN ((DOMAIN call_kwargs_raw) \ route_info.names_exclude) \cap route_info.names_include
                    ELSE (DOMAIN call_kwargs_raw) \cap route_info.names_include
        IN  /\ DOMAIN call_kwargs = kept
            /\ \A k \in kept : call_kwargs[k] = call_kwargs_raw[k]
            /\ view.built => view.route_info = call_kwargs
            /\ \A i \in 1..Len(handler_kwargs) : handler_kwargs[i] = call_kwargs

\* a variable-keyword route without exclusions whose handler is not passed an
\* extracted key, since it is outside the inclusion set; and the same
\* declaration without variable-keyword capture keeps an excluded key
C15_Witness ==
    /\ Len(handler_kwargs) = 1
    /\ route_info.names_varkw # PyNone
    /\ route_info.names_exclude = {}
    /\ route_info.names_include = {"id"}
    /\ DOMAIN call_kwargs_raw = {"id", "page"}
    /\ DOMAIN handler_kwargs[1] = {"id"}

\* a route without variable-keyword capture whose handler is passed a key of
\* its exclusion set
C15_WitnessNoVarkw ==
    /\ Len(handler_kwargs) = 1
    /\ route_info.names_varkw = PyNone
    /\ route_info.names_exclude = {"page"}
    /\ route_info.names_include = {"id", "page"}
    /\ DOMAIN handler_kwargs[1] = {"id", "page"}

\* the response before the CORS merge: the one the view holds, or for an
\* OPTIONS request the one built from the last policy
BeforeMerge ==
    IF scope.method = "OPTIONS"
    THEN Response(200, PyNone,
                  SomeDict(pack_headers(cors_options[Len(cors_options)], ASGIRequest_origin(scope))),
                  "text/plain", NoDict)
    ELSE view.response

\* the value the last policy that sets CORS header key gives it
LastSetting(key) ==
    LET setting == {j \in 1..Len(cors_options) :
                        DictHas(pack_headers(cors_options[j], ASGIRequest_origin(scope)), key)}
        last == CHOOSE j \in setting : \A l \in setting : l <= j
    IN  DictGet(pack_headers(cors_options[last], ASGIRequest_origin(scope)), key)

\* C16: with CORS policies configured, the headers of a response that is sent
\* hold every CORS header some policy sets, whatever the origin of the request
\* and the host of the policy, each with the value of the last policy that
\* sets it, also when the handler had set that header; allow-origin is the
\* origin of the request; the other headers the handler set are there with
\* their values and nothing else is added; status, body, content type and
\* cookies are those of the response before the merge.
C16_CorsMergedLastWins ==
    (Len(cors_options) > 0 /\ RespTruthy(resp) /\ pc \in {"send_body", "done"}) =>
        LET before == BeforeMerge
            was == IF before.headers.none THEN <<>> ELSE before.headers.kv
            hs == resp.headers.kv
            cors == CorsNames(cors_options)
        IN  /\ ~resp.headers.none
            /\ DictKeys(hs) = DictKeys(was) \cup cors
            /\ Len(hs) = Cardinality(DictKeys(hs))
            /\ \A key \in cors : DictGet(hs, key) = LastSetting(key)
            /\ DictGet(hs, ACCESS_CONTROL_ALLOW_ORIGIN) = ASGIRequest_origin(scope)
            /\ \A key \in DictKeys(was) \ cors : DictGet(hs, key) = DictGet(was, key)
            /\ resp.status = before.status
            /\ resp.body = before.body
            /\ resp.cookies = before.cookies
            /\ resp.content_type = before.content_type
            /\ sent[1] = StartEvent(before.status, build_headers(resp))
            /\ body = get_body(before)

\* a handler's response with a header of its own and an allow-origin header,
\* sent under two policies of which only the first sets max-age and both set
\* expose-headers
C16_Witness ==
    /\ pc = "done"
    /\ Len(cors_options) = 2
    /\ cors_options[1].host = "a.example"
    /\ cors_options[2].host = "b.example"
    /\ "handler" \in Range(calls)
    /\ DictHas(view.response.headers.kv, ACCESS_CONTROL_ALLOW_ORIGIN)
    /\ DictGet(view.response.headers.kv, ACCESS_CONTROL_ALLOW_ORIGIN) = PyStr("*")
    /\ DictGet(resp.headers.kv, ACCESS_CONTROL_ALLOW_ORIGIN) = PyBytes("http://a.example")
    /\ DictGet(resp.headers.kv, ACCESS_CONTROL_EXPOSE_HEADERS) = PyStr("X-D")
    /\ DictGet(resp.headers.kv, ACCESS_CONTROL_MAX_AGE) = PyInt(60)
    /\ DictGet(resp.headers.kv, "X-Powered-By") = PyStr("slim")
    /\ resp.cookies = view.response.cookies

\* the place of a call in the order of the steps of view_validate_check
StepRank(c) ==
    CASE c = "do_validate:query" -> 1
      [] c = "post_data" -> 2
      [] c = "do_validate:write_value" -> 3
      [] c = "do_validate:post" -> 4
      [] c = "do_validate:headers" -> 5
      [] OTHER -> 0

LastCall == IF calls = <<>> THEN "" ELSE calls[Len(calls)]

\* C17: view_validate_check runs its steps in the order query, write-value,
\* post, headers, each at most once but for the elements of a bulk insert,
\* the body steps only for a POST-family method; a failing step raises the
\* typed error of its kind (InvalidParams, InvalidPostData, InvalidHeaders)
\* and is the last step that runs: no validated_* field of that or a later
\* step is written; each validated_* field is written at most once.
C17_StepsInOrderFirstErrorStops ==
    (pc \in {"v_query", "v_post_data", "v_write", "v_items", "v_post", "v_headers", "v_done"}) =>
        /\ \A a, b \in 1..Len(calls) :
            a < b => /\ StepRank(calls[a]) <= StepRank(calls[b])
                     /\ StepRank(calls[a]) = StepRank(calls[b]) => calls[a] = "do_validate:write_value"
        /\ view.method \notin POST_METHODS =>
            /\ Range(calls) \subseteq {"do_validate:query", "do_validate:headers"}
            /\ ~view.validated_write_values.set
            /\ ~view.validated_post.set
        /\ err \in {"none", "InvalidParams", "InvalidPostData", "InvalidHeaders"}
        /\ err # "none" => (pc = "v_done" /\ view.is_finished)
        /\ err = "InvalidParams" =>
            /\ LastCall = "do_validate:query"
            /\ ~view.params_ok
            /\ ~view.validated_query.set
            /\ ~view.validated_write_values.set
            /\ ~view.validated_post.set
            /\ ~view.validated_headers.set
        /\ err = "InvalidPostData" =>
            /\ LastCall \in {"post_data", "do_validate:write_value", "do_validate:post"}
            /\ LastCall \in {"post_data", "do_validate:write_value"} => ~view.validated_write_values.set
            /\ ~view.validated_post.set
            /\ ~view.validated_headers.set
        /\ err = "InvalidHeaders" =>
            /\ LastCall = "do_validate:headers"
            /\ ~view.headers_ok
            /\ ~view.validated_headers.set
        /\ (pc # "v_query" /\ va.query # "none" /\ ~view.params_ok) => err = "InvalidParams"
        /\ (pc = "v_done" /\ err = "none" /\ va.headers # "none") => view.validated_headers.set
        /\ view.validated_query.n <= 1
        /\ view.validated_write_values.n <= 1
        /\ view.validated_post.n <= 1
        /\ view.validated_headers.n <= 1

\* a POST with all four schemas whose query and write-value steps passed and
\* whose post step failed, before the headers step
C17_Witness ==
    /\ pc = "v_done"
    /\ va = [query |-> "Q", post |-> "P", headers |-> "H", write_value |-> "W"]
    /\ calls = <<"do_validate:query", "post_data", "do_validate:write_value", "do_validate:post">>
    /\ err = "InvalidPostData"
    /\ view.validated_query.n = 1
    /\ view.validated_write_values.n = 1
    /\ ~view.validated_post.set
    /\ ~view.validated_headers.set

\* the current operation is a query whose filter holds a value for a binary or
\* boolean field that its conversion rejects, alone or inside an 'in' list
CoercionFailed ==
    /\ sql_op.name \in {"select_one", "select_pagination_list", "update"}
    /\ \E j \in 1..Len(sql_op.info.args) :
        LET a == sql_op.info.args[j]
            conv_func == conv_func_of(ViewFields[a.field])
        IN  conv_func # "" /\ convert(conv_func, a.op, a.value).exc # "none"

\* C18: when the conversion of a filter value for a binary or boolean field
\* fails, the operation (select_one, select_pagination_list, update) returns
\* INVALID_HTTP_PARAMS and asks nothing of the database.
C18_CoercionFailureIsInvalidParams ==
    CoercionFailed =>
        /\ sql_ret.kind = "return"
        /\ sql_ret.pair
        /\ sql_ret.code = RETCODE_INVALID_HTTP_PARAMS
        /\ db_log = <<>>
        /\ db_rows = sql_op.rows_before

\* C19: an OPTIONS request to an application without CORS policies is kept
\* from the routes: query_path is not called, no view is built, no handler
\* runs, and the request is answered with the fallback (404, content-type
\* text/plain, "not found"), also when its path has a route.
C19_OptionsWithoutCorsIs404 ==
    (scope.type = "http" /\ scope.method = "OPTIONS" /\ cors_options = <<>>) =>
        /\ calls = <<>>
        /\ route_info = NoRoute
        /\ ~view.built
        /\ handler_kwargs = <<>>
        /\ ~RespTruthy(resp)
        /\ pc \in {"start", "respond", "send_404_start", "send_404_body", "done"}
        /\ IsPrefix(sent, FallbackEvents)
        /\ pc = "done" =>
            /\ Len(sent) = 2
            /\ sent[1] = StartEvent(404, << <<PyBytes("content-type"), PyBytes("text/plain")>> >>)
            /\ sent[2] = BodyEvent(PyBytes("not found"))

\* an OPTIONS request to a path with a route, answered without CORS policies
C19_Witness ==
    /\ scope.method = "OPTIONS"
    /\ scope.path \in RoutedPaths
    /\ cors_options = <<>>
    /\ pc = "done"
    /\ Len(sent) = 2
    /\ sent[1].status = 404

\* C20: the body of every http.response.body event handle_request sends is a
\* byte string, for the response of a handler, for the preflight response and
\* for the fallback alike; the body get_body hands back is never None.
C20_BodyIsBytes ==
    /\ \A i \in 1..Len(sent) :
        sent[i].type = "http.response.body" => sent[i].body.t = "bytes"
    /\ pc \in {"send_start", "send_body"} => body.t = "bytes"

\* C21: the filter of the keyword arguments never fails: whatever the raw
\* arguments and the include and exclude sets of the route that was found,
\* also for a variable-keyword route one of whose excluded names was not
\* extracted, no KeyError is raised and the request goes on to the
\* construction of the view, so nothing is raised before _build was called.
C21_FilterNeverRaises ==
    (route_info.found /\ pc # "start") =>
        /\ exc # "KeyError"
        /\ pc = "raised" => "_build" \in Range(calls)

====
